---- MODULE Spec2Model ----
(***************************************************************************)
(* State-machine model of the WebGPU radix-sort engines of                 *)
(* metarapi/webgpu-sorting: DeviceRadixSort (reduce_hist -> scan ->        *)
(* dvr_pass), FidelityFX Parallel Sort (count -> reduce -> scan ->         *)
(* scan-add -> scatter), and the OneSweep host with its decoupled          *)
(* lookback.                                                               *)
(*                                                                         *)
(* Scale.  The kernels are translated statement by statement, but the      *)
(* machine is scaled down so that its states can be enumerated: a key is   *)
(* KEY_BITS = 8 bits wide instead of 32, DeviceRadixSort uses 2-bit        *)
(* digits (RADIX = 4 instead of 256) in a 4-thread workgroup (instead of   *)
(* 256) with subgroups of 1, 2 or 4 lanes (instead of 8, 16, 32), and      *)
(* FidelityFX runs 4 passes of 2 bits (instead of 8 passes of 4 bits).     *)
(* Every scaled constant keeps the relation the source                     *)
(* gives it to the others (BLOCK_DIM = RADIX, MIN_SUBGROUP_SIZE^2 = RADIX, *)
(* REDUCE_PART_SIZE = PART_SIZE, PART_SIZE <= WARP_HIST_CAPACITY, the      *)
(* all-ones padding key, ...) and is marked "scaled" where it is defined.  *)
(* Arrays are functions on 0 .. n-1, as in the source.                     *)
(***************************************************************************)
EXTENDS Integers, Sequences, FiniteSets, TLC

VARIABLES drs, ffx, lb, os, main

vars == <<drs, ffx, lb, os, main>>

----------------------------------------------------------------------------
(* Arithmetic helpers.                                                     *)

\* scaled: source 32, the bits of a u32 / Uint32Array element.
WORD_BITS == 8

\* u32 arithmetic of WGSL / Uint32Array: values wrap modulo 2^WORD_BITS.
Wrap(x) == x % 2^WORD_BITS

Min(a, b) == IF a < b THEN a ELSE b

CeilDiv(a, b) == (a + b - 1) \div b

RECURSIVE SumFn(_, _, _)
\* f[lo] + ... + f[hi]   (0 when hi < lo)
SumFn(f, lo, hi) == IF hi < lo THEN 0 ELSE f[hi] + SumFn(f, lo, hi - 1)

\* Forces a function to be tabulated once, so that later reads are look-ups.
Tab(f) == IF f = f THEN f ELSE f

\* countTrailingZeros of a power of two.
RECURSIVE Ctz(_)
Ctz(x) == IF x % 2 = 1 \/ x = 0 THEN 0 ELSE 1 + Ctz(x \div 2)

----------------------------------------------------------------------------
(* Constants of DeviceRadixSort.wgsl and DeviceRadixSort.js.               *)

\* The keys are u32 words.
KEY_BITS == WORD_BITS

\* 0xffffffff, the all-ones key the kernels load for slots at indices >= size.
KEY_MAX == 2^KEY_BITS - 1

\* scaled: source 8.
RADIX_LOG == 2

RADIX == 2^RADIX_LOG

RADIX_MASK == RADIX - 1

\* scaled: source 256 (= RADIX).
BLOCK_DIM == 4

\* scaled: source 16 (MIN_SUBGROUP_SIZE * MIN_SUBGROUP_SIZE = RADIX).
MIN_SUBGROUP_SIZE == 2

MAX_REDUCE_SIZE == BLOCK_DIM \div MIN_SUBGROUP_SIZE

\* scaled: source 15 (KEYS_PER_THREAD <= RADIX / MIN_SUBGROUP_SIZE).
KEYS_PER_THREAD == 2

PART_SIZE == KEYS_PER_THREAD * BLOCK_DIM

\* scaled: source 128 (a multiple of the supported widths 16 and 32).
REDUCE_BLOCK_DIM == 4

\* scaled: source 30 (REDUCE_PART_SIZE = PART_SIZE).
REDUCE_KEYS_PER_THREAD == 2

\* A group-shared histogram sized for twice the minimum width.
REDUCE_HIST_SIZE_Wide == (REDUCE_BLOCK_DIM \div (2 * MIN_SUBGROUP_SIZE)) * RADIX

REDUCE_HIST_SIZE == (REDUCE_BLOCK_DIM \div MIN_SUBGROUP_SIZE) * RADIX

REDUCE_PART_SIZE == REDUCE_KEYS_PER_THREAD * REDUCE_BLOCK_DIM

MAX_SUBGROUPS_PER_BLOCK == BLOCK_DIM \div MIN_SUBGROUP_SIZE

WARP_HIST_CAPACITY == MAX_SUBGROUPS_PER_BLOCK * RADIX

\* The literal 32 of hist[i + radix_shift * 32]: RADIX / RADIX_LOG, so that
\* shift * HIST_STRIDE = pass * RADIX.
HIST_STRIDE == RADIX \div RADIX_LOG

STATUS_ERR_REDUCE == 0

STATUS_ERR_SCAN == 1

STATUS_ERR_DVR == 2

STATUS_SUBGROUP_BASE == 3

STATUS_SUBGROUP_STRIDE == 3

STATUS_STAGE_REDUCE == 0

STATUS_STAGE_SCAN == 1

STATUS_STAGE_DVR == 2

\* The sentinel codes, scaled to the word: source 0xDEAD0001, 0xDEAD0002,
\* 0xDEAD0004.
ERR_REDUCE_CODE == 209

ERR_SCAN_CODE == 210

ERR_DVR_CODE == 212

\* scaled: source 8.
SCAN_SPT == 2

SCAN_PART_SIZE == BLOCK_DIM * SCAN_SPT

SORT_PASSES == 4

STATUS_ERROR_COUNT == 3

STATUS_LENGTH == STATUS_ERROR_COUNT + SORT_PASSES

\* A digit extraction that drops the shift.
Digit_NoShift(key, shift) == key % RADIX

\* (key >> shift) & RADIX_MASK
Digit(key, shift) == (key \div 2^shift) % RADIX

----------------------------------------------------------------------------
(* Subgroup built-ins.  A subgroup is lane_count consecutive invocations   *)
(* of the workgroup: subgroup id threadid / lane_count (as the kernels     *)
(* compute sid), lane threadid % lane_count.  v is a function on the       *)
(* workgroup's thread ids.                                                 *)

LaneOf(t, w) == t % w

SubgroupBase(t, w) == t - (t % w)

\* subgroupInclusiveAdd(v) as seen by thread t
SubgroupInclusiveAdd(v, t, w) == SumFn(v, SubgroupBase(t, w), t)

\* subgroupExclusiveAdd(v) as seen by thread t
SubgroupExclusiveAdd(v, t, w) == SumFn(v, SubgroupBase(t, w), t - 1)

\* subgroupShuffle(v, source) as seen by thread t
SubgroupShuffle(v, t, source, w) == v[SubgroupBase(t, w) + source]

----------------------------------------------------------------------------
(* reduce_hist (DeviceRadixSort.wgsl 93-175), one workgroup wgid of        *)
(* REDUCE_BLOCK_DIM threads at subgroup width w.  info is the uniform      *)
(* block [size, shift, thread_blocks]; src is the buffer bound as sort.    *)

\* Lines 100 / 189: the width check of reduce_hist and scan.
WidthRejected(lane_count, block_dim) ==
    lane_count < MIN_SUBGROUP_SIZE \/ (block_dim % lane_count) # 0

\* A kernel that also counts the slots of the last partition at indices
\* >= size.
RH_Loads_Padded(info, wgid, t) ==
    { t + wgid * REDUCE_PART_SIZE + k * REDUCE_BLOCK_DIM :
        k \in 0 .. REDUCE_KEYS_PER_THREAD - 1 }

\* Lines 122-141: the indices i at which thread t reads sort[i].
RH_Loads(info, wgid, t) ==
    { i \in { t + wgid * REDUCE_PART_SIZE + k * REDUCE_BLOCK_DIM :
                k \in 0 .. REDUCE_KEYS_PER_THREAD - 1 } :
        \/ wgid < info.thread_blocks - 1
        \/ (wgid = info.thread_blocks - 1 /\ i < info.size) }

\* Lines 112-142: wg_globalHist after the counting loop; thread t adds to
\* slot digit + sid * RADIX with sid = t / lane_count.
RH_Count(src, info, wgid, w) ==
    LET slot == Tab([ t \in 0 .. REDUCE_BLOCK_DIM - 1 |->
                        Tab([ i \in RH_Loads(info, wgid, t) |->
                                Digit(src[i], info.shift) + (t \div w) * RADIX ]) ])
        adds(x) == [ t \in 0 .. REDUCE_BLOCK_DIM - 1 |->
                       Cardinality({ i \in DOMAIN slot[t] : slot[t][i] = x }) ]
    IN  Tab([ x \in 0 .. REDUCE_HIST_SIZE - 1 |->
                IF x < (REDUCE_BLOCK_DIM \div w) * RADIX
                THEN SumFn(adds(x), (x \div RADIX) * w, (x \div RADIX) * w + w - 1)
                ELSE 0 ])

\* Lines 144-156: reduction of the per-subgroup histograms, digit i.
RH_Reduction(cnt, w) ==
    Tab([ i \in 0 .. RADIX - 1 |->
            SumFn([ h \in 0 .. (REDUCE_BLOCK_DIM \div w) - 1 |-> cnt[i + h * RADIX] ],
                  0, (REDUCE_BLOCK_DIM \div w) - 1) ])

\* Lines 157-158: wg_globalHist[i] = shuffle(inclusiveAdd(reduction),
\* (laneid + lane_mask) & lane_mask).  Digit i is handled by thread
\* i % REDUCE_BLOCK_DIM, whose lane is i % w.
RH_Shifted(red, w) ==
    LET incl == [ i \in 0 .. RADIX - 1 |-> SubgroupInclusiveAdd(red, i, w) ]
    IN  Tab([ i \in 0 .. RADIX - 1 |->
                SubgroupShuffle(incl, i, (LaneOf(i, w) + w - 1) % w, w) ])

\* Lines 162-168 (and 379-385 of dvr_pass): the first subgroup scans the
\* subgroup totals held at g[t * lane_count], t < RADIX / lane_count.
SpineExclusive(g, w) ==
    LET pred(t) == t < RADIX \div w
        v == [ t \in 0 .. w - 1 |-> IF pred(t) THEN g[t * w] ELSE 0 ]
    IN  Tab([ i \in 0 .. RADIX - 1 |->
                IF i % w = 0 /\ (i \div w) < w /\ pred(i \div w)
                THEN SubgroupExclusiveAdd(v, i \div w, w)
                ELSE g[i] ])

\* Lines 171-174: the value thread i adds to hist[i + radix_shift * 32].
RH_HistAdd(g, w) ==
    [ i \in 0 .. RADIX - 1 |->
        g[i] + (IF LaneOf(i, w) # 0 THEN g[(i \div w) * w] ELSE 0) ]

\* The global writes of one reduce_hist workgroup that passed the width check:
\* pass_hist[wgid + i * thread_blocks] = reduction, hist[...] += prefix.
ReduceHistWG(src, hist, pass_hist, info, wgid, w) ==
    LET red == RH_Reduction(RH_Count(src, info, wgid, w), w)
        add == RH_HistAdd(SpineExclusive(RH_Shifted(red, w), w), w)
    IN  [ pass_hist |->
            [ x \in DOMAIN pass_hist |->
                IF x < info.thread_blocks * RADIX /\ x % info.thread_blocks = wgid
                THEN red[x \div info.thread_blocks]
                ELSE pass_hist[x] ],
          hist |->
            [ x \in DOMAIN hist |->
                IF x \div RADIX = (info.shift * HIST_STRIDE) \div RADIX
                THEN Wrap(hist[x] + add[x % RADIX])
                ELSE hist[x] ] ]

----------------------------------------------------------------------------
(* scan (DeviceRadixSort.wgsl 182-277), workgroup wgid (one per digit) of  *)
(* BLOCK_DIM threads at subgroup width w: an in-place inclusive scan of    *)
(* pass_hist[wgid * thread_blocks + 0 .. thread_blocks - 1].               *)

\* Line 206.
LocalAlignedSize(w) ==
    LET lane_log == Ctz(w)
        local_spine_size == BLOCK_DIM \div w
    IN  2^(((Ctz(local_spine_size) + lane_log - 1) \div lane_log) * lane_log)

\* Lines 213-226 for one value of k: t_scan[k] of every thread after
\* t_scan[k] = subgroupInclusiveAdd(t_scan[k]) + prev, given the loaded values.
SC_ScanK(loaded, prev, w) ==
    Tab([ t \in 0 .. BLOCK_DIM - 1 |-> SubgroupInclusiveAdd(loaded, t, w) + prev[t] ])

RECURSIVE SC_Thread(_, _, _, _, _, _, _)
\* Lines 213-226: the loop over k; acc maps k to the function t |-> t_scan[k].
SC_Thread(row, tb, w, dev_offset, stale, k, acc) ==
    IF k = SCAN_SPT THEN acc
    ELSE LET idx(t) == LaneOf(t, w) + (t \div w) * w * SCAN_SPT + dev_offset + k * w
             loaded == Tab([ t \in 0 .. BLOCK_DIM - 1 |->
                               IF idx(t) < tb THEN row[idx(t)] ELSE stale[k][t] ])
             prev == [ t \in 0 .. BLOCK_DIM - 1 |->
                         IF k = 0 THEN 0
                         ELSE SubgroupShuffle(acc[k - 1], t, w - 1, w) ]
         IN  SC_Thread(row, tb, w, dev_offset, stale, k + 1,
                       acc @@ (k :> SC_ScanK(loaded, prev, w)))

\* Lines 228-261: wg_reduce after the spine scan.  For every width that passes
\* the check at line 189, BLOCK_DIM / lane_count <= lane_count, so the loop at
\* line 236 runs at most once, with j = lane_count (the j != lane_count branch
\* is never entered): thread t < local_spine_size replaces wg_reduce[t] by the
\* inclusive sum over its subgroup.
SC_Spine(ts, w) ==
    LET local_spine_size == BLOCK_DIM \div w
        raw == [ s \in 0 .. local_spine_size - 1 |-> ts[SCAN_SPT - 1][s * w + w - 1] ]
        sel == [ t \in 0 .. BLOCK_DIM - 1 |-> IF t < local_spine_size THEN raw[t] ELSE 0 ]
    IN  IF w <= LocalAlignedSize(w)
        THEN Tab([ s \in 0 .. local_spine_size - 1 |-> SubgroupInclusiveAdd(sel, s, w) ])
        ELSE raw

\* A scan whose blocks each start from zero.
SC_Carry_Dropped(prev_red, wg_reduce, w) == 0

\* Line 273: the total of the block is carried into the next block.
SC_Carry(prev_red, wg_reduce, w) ==
    Wrap(prev_red + wg_reduce[(BLOCK_DIM \div w) - 1])

RECURSIVE SC_Loop(_, _, _, _, _, _)
\* Lines 210-276: the loop over dev_offset; returns the scanned row.
SC_Loop(row, tb, w, dev_offset, prev_red, stale) ==
    LET aligned_size == CeilDiv(tb, SCAN_PART_SIZE) * SCAN_PART_SIZE
    IN  IF dev_offset >= aligned_size THEN row
        ELSE LET ts == SC_Thread(row, tb, w, dev_offset, stale, 0, <<>>)
                 wg_reduce == SC_Spine(ts, w)
                 prev(t) == (IF t \div w # 0 THEN wg_reduce[(t \div w) - 1] ELSE 0) + prev_red
                 \* the thread and the k that own element x of this block
                 owner(x) == LET y == x - dev_offset
                                 sid == y \div (w * SCAN_SPT)
                             IN  [ t |-> sid * w + (y % w),
                                   k |-> (y % (w * SCAN_SPT)) \div w ]
                 out == Tab([ x \in DOMAIN row |->
                                IF x >= dev_offset /\ x < dev_offset + SCAN_PART_SIZE /\ x < tb
                                THEN Wrap(ts[owner(x).k][owner(x).t] + prev(owner(x).t))
                                ELSE row[x] ])
             IN  SC_Loop(out, tb, w, dev_offset + SCAN_PART_SIZE,
                         SC_Carry(prev_red, wg_reduce, w), ts)

\* The global writes of the scan workgroup of digit wgid that passed the width
\* check: the values stored at pass_hist[i + wgid * thread_blocks], i <
\* thread_blocks.
ScanWG(pass_hist, info, wgid, w) ==
    LET tb == info.thread_blocks
        radix_offset == wgid * tb
        row == [ i \in 0 .. tb - 1 |-> pass_hist[i + radix_offset] ]
        zero == [ k \in 0 .. SCAN_SPT - 1 |-> [ t \in 0 .. BLOCK_DIM - 1 |-> 0 ] ]
    IN  SC_Loop(row, tb, w, 0, 0, zero)

\* The dispatch of RADIX scan workgroups (DeviceRadixSort.js 650-655); each
\* workgroup writes its own row of pass_hist.
ScanDispatch(pass_hist, info, w) ==
    LET tb == info.thread_blocks
        rows == Tab([ d \in 0 .. RADIX - 1 |-> Tab(ScanWG(pass_hist, info, d, w)) ])
    IN  [ x \in DOMAIN pass_hist |->
            IF x < tb * RADIX THEN rows[x \div tb][x % tb] ELSE pass_hist[x] ]

----------------------------------------------------------------------------
(* dvr_pass (DeviceRadixSort.wgsl 283-433), workgroup wgid of BLOCK_DIM    *)
(* threads at subgroup width w.                                            *)

\* scaled: source 32, the bits of ballot.x, the one ballot word WLMS reads
\* (= 2 * MIN_SUBGROUP_SIZE).
BALLOT_BITS == 4

Threads == 0 .. BLOCK_DIM - 1

\* Lines 334-352: keys[k] of thread t.
DV_Keys(src, info, wgid, w) ==
    LET idx(t, k) == LaneOf(t, w) + (t \div w) * w * KEYS_PER_THREAD
                       + wgid * PART_SIZE + k * w
    IN  Tab([ t \in Threads |->
                [ k \in 0 .. KEYS_PER_THREAD - 1 |->
                    IF wgid < info.thread_blocks - 1 THEN src[idx(t, k)]
                    ELSE IF idx(t, k) < info.size THEN src[idx(t, k)]
                    ELSE KEY_MAX ] ])

\* Bit k of digit d.
DigitBit(d, k) == (d \div 2^k) % 2 = 1

\* The number of bits 1u << n shifts by: WGSL takes the shift amount of a
\* runtime value modulo the bit width of the shifted value.
ShiftAmount(n) == n % BALLOT_BITS

\* (1u << n) - 1u as the set of its bits (lines 293, 357).
LowMask(n) == 0 .. ShiftAmount(n) - 1

\* Lines 284-295: eq_mask of thread t as the set of its bits; bits[t][k] is
\* bit k of the digit of t's key.  Bit l of a ballot is set when lane l exists
\* and its predicate holds; the loop keeps the lanes that agree with t on
\* every bit of the digit, and bits of lanes that do not exist survive ~ballot
\* when every bit of t's digit is 0, until subgroup_mask =
\* (1u << lane_count) - 1 removes them (lane_count != 32).
DV_EqMask(bits, t, w) ==
    LET lanes == { l \in 0 .. BALLOT_BITS - 1 :
                     \A k \in 0 .. RADIX_LOG - 1 :
                        bits[t][k] <=> (l < w /\ bits[SubgroupBase(t, w) + l][k]) }
        subgroup_mask == IF w # BALLOT_BITS THEN LowMask(w) ELSE 0 .. BALLOT_BITS - 1
    IN  lanes \cap subgroup_mask

MaxOf(S) == CHOOSE x \in S : \A y \in S : y <= x

\* Lines 296 and 357: countOneBits(eq_mask & lane_mask_lt), with
\* lane_mask_lt = (1u << laneid) - 1u.
DV_Out(eq, t, w) == Cardinality(eq \cap LowMask(LaneOf(t, w)))

DV_HighestRankPeer(eq, w) == IF eq # {} THEN MaxOf(eq) ELSE w - 1

\* WLMS (lines 283-305) for the k-th key of every thread: the ranks it returns
\* and wg_warpHist after its atomicAdd's.  key maps a thread to its k-th key.
WLMS(key, shift, w, warpHist) ==
    LET dg == Tab([ t \in Threads |-> Digit(key[t], shift) ])
        bits == Tab([ t \in Threads |->
                        Tab([ k \in 0 .. RADIX_LOG - 1 |-> DigitBit(dg[t], k) ]) ])
        eq == Tab([ t \in Threads |-> DV_EqMask(bits, t, w) ])
        out == Tab([ t \in Threads |-> DV_Out(eq[t], t, w) ])
        peer == Tab([ t \in Threads |-> DV_HighestRankPeer(eq[t], w) ])
        adds == Tab([ t \in Threads |-> LaneOf(t, w) = peer[t] /\ eq[t] # {} ])
        slot == Tab([ t \in Threads |-> dg[t] + (t \div w) * RADIX ])
        pre_inc == Tab([ t \in Threads |-> IF adds[t] THEN warpHist[slot[t]] ELSE 0 ])
        \* the atomicAdd's of subgroup x / RADIX on cell x
        added(x) == [ t \in Threads |->
                        IF adds[t] /\ slot[t] = x THEN out[t] + 1 ELSE 0 ]
    IN  [ out  |-> Tab([ t \in Threads |->
                             out[t] + SubgroupShuffle(pre_inc, t, peer[t], w) ]),
          hist |-> Tab([ x \in DOMAIN warpHist |->
                           IF x < (BLOCK_DIM \div w) * RADIX
                           THEN warpHist[x] + SumFn(added(x), (x \div RADIX) * w,
                                                    (x \div RADIX) * w + w - 1)
                           ELSE warpHist[x] ]) ]

RECURSIVE DV_Rank(_, _, _, _, _, _)
\* Lines 354-362: the loop over k; returns offsets (k |-> t |-> rank) and
\* wg_warpHist.
DV_Rank(keys, shift, w, k, offsets, warpHist) ==
    IF k = KEYS_PER_THREAD THEN [ offsets |-> offsets, hist |-> warpHist ]
    ELSE LET r == WLMS([ t \in Threads |-> keys[t][k] ], shift, w, warpHist)
         IN  DV_Rank(keys, shift, w, k + 1, offsets @@ (k :> r.out), r.hist)

\* Lines 365-376: threads < RADIX turn the per-subgroup counts of their digit
\* into exclusive prefixes over the subgroups and keep the digit total.
DV_Total(warpHist, w) ==
    Tab([ d \in 0 .. RADIX - 1 |->
            SumFn([ h \in 0 .. (BLOCK_DIM \div w) - 1 |-> warpHist[d + h * RADIX] ],
                  0, (BLOCK_DIM \div w) - 1) ])

DV_SubgroupPrefix(warpHist, w) ==
    Tab([ x \in DOMAIN warpHist |->
            IF x >= RADIX /\ x < (BLOCK_DIM \div w) * RADIX
            THEN SumFn([ h \in 0 .. (x \div RADIX) - 1 |-> warpHist[(x % RADIX) + h * RADIX] ],
                       0, (x \div RADIX) - 1)
            ELSE warpHist[x] ])

\* Lines 372-392: wg_warpHist[0 .. RADIX-1] becomes the exclusive prefix of
\* the digit totals of the workgroup.
DV_DigitPrefix(total, w) ==
    LET g == SpineExclusive(RH_Shifted(total, w), w)
    IN  Tab([ d \in 0 .. RADIX - 1 |->
                IF LaneOf(d, w) # 0 THEN g[d] + g[(d \div w) * w] ELSE g[d] ])

\* Lines 395-405: the rank of key k of thread t inside the workgroup.
DV_Offsets(keys, shift, w, offsets, sub, dig) ==
    Tab([ t \in Threads |->
            [ k \in 0 .. KEYS_PER_THREAD - 1 |->
                LET d == Digit(keys[t][k], shift)
                IN  IF t >= w
                    THEN offsets[k][t] + dig[d] + sub[d + (t \div w) * RADIX]
                    ELSE offsets[k][t] + dig[d] ] ])

\* Lines 407-411.
DV_LocalHist(hist, pass_hist, info, wgid, dig) ==
    Tab([ d \in 0 .. RADIX - 1 |->
            Wrap(hist[d + info.shift * HIST_STRIDE]
                 + (IF wgid # 0 THEN pass_hist[wgid + info.thread_blocks * d - 1] ELSE 0)
                 - dig[d]) ])

RECURSIVE DV_Store(_, _, _, _)
\* Lines 414-416: wg_warpHist[offsets[k]] = keys[k], for the p-th and later
\* (thread, k) pairs.
DV_Store(keys, off, warpHist, p) ==
    IF p = PART_SIZE THEN warpHist
    ELSE LET t == p \div KEYS_PER_THREAD
             k == p % KEYS_PER_THREAD
         IN  DV_Store(keys, off, [ warpHist EXCEPT ![off[t][k]] = keys[t][k] ], p + 1)

DV_Sorted(keys, off, warpHist) == DV_Store(keys, off, warpHist, 0)

\* A kernel that stores the whole tile of every partition.
DV_Written_All(info, wgid) == 0 .. PART_SIZE - 1

\* Lines 419-432: the indices i of the sorted workgroup tile that are written
\* to alt.
DV_Written(info, wgid) ==
    IF wgid < info.thread_blocks - 1 THEN 0 .. PART_SIZE - 1
    ELSE IF wgid = info.thread_blocks - 1
         THEN 0 .. Min(PART_SIZE, info.size - wgid * PART_SIZE) - 1
         ELSE {}

\* Lines 422 / 430: the index of alt at which tile element i is stored.
DV_Dest(sorted, localHist, shift, i) ==
    Wrap(localHist[Digit(sorted[i], shift)] + i)

RECURSIVE DV_Scatter(_, _, _, _, _, _)
\* Lines 419-432: alt[localHist[digit] + i] = key for the tile elements i,
\* i + 1, ... below the number written.
DV_Scatter(alt, sorted, localHist, shift, i, n) ==
    IF i >= n THEN alt
    ELSE LET dest == DV_Dest(sorted, localHist, shift, i)
         IN  DV_Scatter(IF dest \in DOMAIN alt
                        THEN [ alt EXCEPT ![dest] = sorted[i] ] ELSE alt,
                        sorted, localHist, shift, i + 1, n)

\* The global writes of one dvr_pass workgroup that passed the capacity check:
\* the new contents of the buffer bound as alt.  The kernel stores keys only;
\* payload and alt_payload are bound (bindings 4 and 5) and never accessed.
DvrPassWG(src, alt, hist, pass_hist, info, wgid, w) ==
    LET keys == DV_Keys(src, info, wgid, w)
        zero == [ x \in 0 .. WARP_HIST_CAPACITY - 1 |-> 0 ]
        rank == DV_Rank(keys, info.shift, w, 0, <<>>, zero)
        sub == DV_SubgroupPrefix(rank.hist, w)
        dig == DV_DigitPrefix(DV_Total(rank.hist, w), w)
        off == DV_Offsets(keys, info.shift, w, rank.offsets, sub, dig)
        localHist == DV_LocalHist(hist, pass_hist, info, wgid, dig)
        sorted == DV_Sorted(keys, off, sub)
    IN  DV_Scatter(alt, sorted, localHist, info.shift, 0,
                   Cardinality(DV_Written(info, wgid)))

\* Line 316-317: the capacity check of dvr_pass.
CapacityExceeded(lane_count) ==
    (BLOCK_DIM \div lane_count) * RADIX > WARP_HIST_CAPACITY

----------------------------------------------------------------------------
(* Inputs and devices.                                                     *)

\* Subgroup widths a pipeline may run at (scaled: 8, 16 and 32 lanes).
Widths == { MIN_SUBGROUP_SIZE \div 2, MIN_SUBGROUP_SIZE, 2 * MIN_SUBGROUP_SIZE }

\* Longest input enumerated exhaustively over KeySet.
MaxShortLen == 2

\* Number of generated long inputs per length.
NumSeeds == 1

\* Keys of the exhaustive inputs: two keys whose lowest digits order against
\* the keys (digits 0102 < 0201, lowest digit last), and the all-ones key.
KeySet == { 18, 33, KEY_MAX }

\* maxKeys of the engine constructors (main.js 422, scaled): two partitions
\* and one key.
MaxKeys == 2 * PART_SIZE + 1

\* data.map(d => d.key) / d.value: an input is a sequence of records.
Rec(k, v) == [ key |-> k, value |-> v ]

ShortInputs ==
    UNION { { [ i \in 1 .. n |-> Rec(ks[i], i - 1) ] : ks \in [ 1 .. n -> KeySet ] } :
            n \in 0 .. MaxShortLen }

\* The example of the specification: [{5,0},{3,1},{5,2},{1,3}].
ExampleInput == << Rec(5, 0), Rec(3, 1), Rec(5, 2), Rec(1, 3) >>

\* Generated inputs of one partition, one partition and one key, and two
\* partitions and one key; payloads are the indices.
LongKey(i, seed) == ((i * 7919 * seed + 40503 * (i % 5)) % 97) * 67 % (KEY_MAX + 1)

LongInputs ==
    { [ i \in 1 .. n |-> Rec(IF i = n THEN KEY_MAX ELSE LongKey(i, seed), i - 1) ] :
        n \in { PART_SIZE, PART_SIZE + 1, MaxKeys }, seed \in 1 .. NumSeeds }

Inputs == ShortInputs \cup { ExampleInput } \cup LongInputs

\* What a store to status[idx] with idx >= arrayLength does: WGSL leaves an
\* out-of-bounds store either not performed (-1) or performed on some element
\* of the same buffer; the device decides.
OobTargets == { -1, 0, STATUS_LENGTH - 1 }

\* The devices of DeviceRadixSort: a subgroup width for each of its three
\* pipelines and the out-of-bounds behaviour.
Devices == [ reduce : Widths, scan : Widths, dvr : Widths, oob : OobTargets ]

\* An engine that has not been constructed.
Off == [ pc |-> "off" ]

----------------------------------------------------------------------------
(* DeviceRadixSort, host side (class DeviceRadixSort) and the execution of *)
(* the command buffer it submits.  drs is the engine with its device       *)
(* buffers:                                                                *)
(*   pc                 idle, copy, reduce, dvr, done, returned, threw     *)
(*   sortBuffer .. altPayloadBuffer   the buffer each field refers to      *)
(*   mem                contents of the four key / payload buffers         *)
(*   hist, pass_hist, status, info, infoUpload   contents of those buffers *)
(*   binds              the bind group created for each pass               *)
(*   pass, pending      the pass being executed and the workgroups of the  *)
(*                      current dispatch that have not run yet             *)
(*   w, oob             the device: subgroup width of each pipeline and    *)
(*                      what an out-of-bounds status store does            *)
(*   data, submits      the argument of sort() and the number of           *)
(*                      queue.submit calls                                 *)
(*   timingSupported, querySet, readBuffer   the timestamp-query feature,  *)
(*                      the two timestamps of the query set and the        *)
(*                      mappable buffer they are resolved and copied to    *)
(*   result             << >>, or << r >> once sort() has returned r       *)
(*   returned           history: the argument and the array of every call  *)
(*                      of sort() that has returned, in order              *)

BufIds == { "k0", "k1", "p0", "p1" }

Cells(n) == 0 .. n - 1

\* A host that shifts by the pass number.
ShiftOfPass_ByOne(pass, bits) == pass

\* const shift = pass * RADIX_LOG (pass * SORT_BITS_PER_PASS in FidelityFX).
ShiftOfPass(pass, bits) == pass * bits

\* A kernel that starts while workgroups of the previous one are running.
PassEnded_Early(pending) == TRUE

\* pass.end() followed by the beginComputePass of the next kernel in the same
\* command encoder: the dispatch of the ended pass is complete, none of its
\* workgroups is still to run.
PassEnded(pending) == pending = {}

Zeros(n) == [ i \in Cells(n) |-> 0 ]

NoInfo == [ size |-> 0, shift |-> 0, thread_blocks |-> 0 ]

NoBind == [ sort |-> "k0", alt |-> "k1", payload |-> "p0", alt_payload |-> "p1" ]

\* Timestamps (source: 64-bit, BigUint64Array) are 2 * WORD_BITS wide here.
TIME_BITS == 2 * WORD_BITS

\* The device clock at an edge of a compute pass: the commands of a queue
\* execute in submission order, so the clock at the beginning (edge 0) or
\* end (edge 1) of the kernels of pass `pass` of submission `call` grows with
\* (call, pass, edge).
Timestamp(call, pass, edge, passes) ==
    ((call * passes + pass) * 2 + edge) % (2 ^ TIME_BITS)

\* A host that asks for the begin timestamp in every pass.
BeginsTiming_EveryPass(pass) == TRUE

\* timestampWrites { beginningOfPassWriteIndex: 0 } on the first kernel of
\* pass 0 (lines 638-643, 1030-1035; OneSweep.js 243-249).
BeginsTiming(pass) == pass = 0

\* timestampWrites { endOfPassWriteIndex: 1 } on the last kernel of the last
\* pass (lines 658-663, 1098-1103; OneSweep.js 266-271).
EndsTiming(pass, passes) == pass = passes - 1

\* The query set after the first kernel of the current pass of e has begun.
QueryBegin(e, passes) ==
    IF e.timingSupported /\ BeginsTiming(e.pass)
    THEN [ e.querySet EXCEPT ![0] = Timestamp(e.submits, e.pass, 0, passes) ]
    ELSE e.querySet

\* The query set after the last kernel of the current pass of e has ended.
QueryEnd(e, passes) ==
    IF e.timingSupported /\ EndsTiming(e.pass, passes)
    THEN [ e.querySet EXCEPT ![1] = Timestamp(e.submits, e.pass, 1, passes) ]
    ELSE e.querySet

\* encoder.resolveQuerySet(querySet, 0, 2, queryBuffer, 0) and
\* copyBufferToBuffer(queryBuffer, 0, readBuffer, 0, 16), the last commands
\* of the command buffer (lines 675-678, 969-972; OneSweep.js 279-282).
ResolveQuerySet(e, querySet) ==
    IF e.timingSupported THEN querySet ELSE e.readBuffer

\* Lines 684-691, 978-985; OneSweep.js 288-294: gpuTime, in clock units
\* (source: nanoseconds divided by 1e6).
GpuTime(e) ==
    IF e.timingSupported
    THEN (e.readBuffer[1] - e.readBuffer[0]) % (2 ^ TIME_BITS)
    ELSE 0

\* An engine constructed on a device without the timestamp-query feature
\* (constructor: timingSupported = device.features.has('timestamp-query')).
Untimed(e) == [ e EXCEPT !.timingSupported = FALSE ]

\* createBuffers (lines 509-562): WebGPU buffers start zeroed.
DRS_Created(d) ==
    [ pc |-> "idle", sortBuffer |-> "k0", altBuffer |-> "k1",
      payloadBuffer |-> "p0", altPayloadBuffer |-> "p1",
      mem |-> [ b \in BufIds |-> Zeros(MaxKeys) ],
      hist |-> Zeros(RADIX * SORT_PASSES),
      pass_hist |-> Zeros(CeilDiv(MaxKeys, PART_SIZE) * RADIX * SORT_PASSES),
      status |-> Zeros(STATUS_LENGTH),
      info |-> NoInfo,
      infoUpload |-> [ p \in Cells(SORT_PASSES) |-> NoInfo ],
      binds |-> [ p \in Cells(SORT_PASSES) |-> NoBind ],
      pass |-> 0, pending |-> {},
      w |-> [ reduce |-> d.reduce, scan |-> d.scan, dvr |-> d.dvr ], oob |-> d.oob,
      timingSupported |-> TRUE, querySet |-> Zeros(2), readBuffer |-> Zeros(2),
      data |-> << >>, submits |-> 0,
      result |-> << >>, returned |-> << >> ]

\* A queue whose writes are lost.
WriteBuffer_Lost(buf, values) == buf

\* queue.writeBuffer(buffer, 0, values)
WriteBuffer(buf, values) ==
    [ i \in DOMAIN buf |-> IF i < Len(values) THEN values[i + 1] ELSE buf[i] ]

\* A host that writes the block of every pass at offset 0.
InfoOffset_Zero(pass) == 0

\* const infoOffset = pass * 16 (constantsOffset = passIndex * CONSTANTS_SIZE
\* in FidelityFX), as the index of the slot of the upload buffer.
InfoOffset(pass) == pass

\* queue.writeBuffer(uploadBuffer, offset of pass, block of pass) for the
\* passes in order: a slot holds the block of the last pass written to it.
UploadSlots(buf, blocks) ==
    [ x \in DOMAIN buf |->
        LET writers == { q \in DOMAIN blocks : InfoOffset(q) = x }
        IN  IF writers = {} THEN buf[x]
            ELSE blocks[CHOOSE q \in writers : \A r \in writers : r <= q] ]

\* A host that writes nothing when it means to clear.
ZeroFill_None(n) == << >>

\* new Uint32Array(n).fill(0)
ZeroFill(n) == [ i \in 1 .. n |-> 0 ]

\* A kernel whose stores to the status register are lost.
StatusStore_Dropped(status, idx, val, oob) == status

\* status[idx] = val in a kernel.
StatusStore(status, idx, val, oob) ==
    IF idx < STATUS_LENGTH THEN [ status EXCEPT ![idx] = val ]
    ELSE IF oob = -1 THEN status
    ELSE [ status EXCEPT ![oob] = val ]

\* Lines 107-110, 196-199, 324-327: workgroup 0 records the width.
StatusWidth(status, wgid, info, stage, lane_count, oob) ==
    IF wgid = 0
    THEN StatusStore(status,
                     STATUS_SUBGROUP_BASE
                       + (info.shift \div RADIX_LOG) * STATUS_SUBGROUP_STRIDE + stage,
                     lane_count, oob)
    ELSE status

\* The four buffer fields of a DeviceRadixSort object.
BufferFields(e) ==
    [ sortBuffer |-> e.sortBuffer, altBuffer |-> e.altBuffer,
      payloadBuffer |-> e.payloadBuffer, altPayloadBuffer |-> e.altPayloadBuffer ]

\* A host that does not swap after the last pass.
SwapBuffers_ExceptLast(f, pass) ==
    IF pass = SORT_PASSES - 1 THEN f
    ELSE [ sortBuffer |-> f.altBuffer, altBuffer |-> f.sortBuffer,
           payloadBuffer |-> f.altPayloadBuffer, altPayloadBuffer |-> f.payloadBuffer ]

\* Lines 670-672, at the end of the encoding of every pass:
\* [this.sortBuffer, this.altBuffer] = [this.altBuffer, this.sortBuffer] and
\* the same for the payload fields.
SwapBuffers(f, pass) ==
    [ sortBuffer |-> f.altBuffer, altBuffer |-> f.sortBuffer,
      payloadBuffer |-> f.altPayloadBuffer, altPayloadBuffer |-> f.payloadBuffer ]

\* The fields when the encoding loop reaches pass p (p = SORT_PASSES: when it
\* has ended).
RECURSIVE FieldsAtPass(_, _)
FieldsAtPass(f, p) ==
    IF p = 0 THEN f ELSE SwapBuffers(FieldsAtPass(f, p - 1), p - 1)

\* sort(data), lines 583-680: upload, clear, encode the four passes (one
\* bind group per pass, then the swap), submit once.
DRS_Sort(data) ==
    /\ drs.pc = "idle"
    /\ LET numKeys == Len(data)
           threadBlocks == CeilDiv(numKeys, PART_SIZE)
           keys == [ i \in 1 .. numKeys |-> data[i].key ]
           values == [ i \in 1 .. numKeys |-> data[i].value ]
           bind(p) == LET f == FieldsAtPass(BufferFields(drs), p)
                      IN  [ sort |-> f.sortBuffer, alt |-> f.altBuffer,
                            payload |-> f.payloadBuffer,
                            alt_payload |-> f.altPayloadBuffer ]
           after == FieldsAtPass(BufferFields(drs), SORT_PASSES)
       IN  drs' = [ drs EXCEPT
              !.data = data,
              !.mem = [ b \in BufIds |->
                          IF b = drs.sortBuffer THEN WriteBuffer(drs.mem[b], keys)
                          ELSE IF b = drs.payloadBuffer
                          THEN WriteBuffer(drs.mem[b], values)
                          ELSE drs.mem[b] ],
              !.hist = Zeros(RADIX * SORT_PASSES),
              !.status = WriteBuffer(drs.status, ZeroFill(STATUS_LENGTH)),
              !.infoUpload = UploadSlots(drs.infoUpload,
                                [ p \in Cells(SORT_PASSES) |->
                                    [ size |-> numKeys,
                                      shift |-> ShiftOfPass(p, RADIX_LOG),
                                      thread_blocks |-> threadBlocks ] ]),
              !.binds = [ p \in Cells(SORT_PASSES) |-> bind(p) ],
              !.sortBuffer = after.sortBuffer,
              !.altBuffer = after.altBuffer,
              !.payloadBuffer = after.payloadBuffer,
              !.altPayloadBuffer = after.altPayloadBuffer,
              !.submits = drs.submits + 1,
              !.pass = 0, !.pending = {}, !.pc = "copy" ]
    /\ UNCHANGED <<ffx, lb, os, main>>

\* encoder.copyBufferToBuffer(infoUploadBuffer, pass * 16, infoBuffer, 0, 16),
\* followed by the reduce_hist dispatch of threadBlocks workgroups.
DRS_CopyInfo ==
    /\ drs.pc = "copy"
    /\ drs' = [ drs EXCEPT !.info = drs.infoUpload[InfoOffset(drs.pass)],
                           !.pending =
                              Cells(drs.infoUpload[InfoOffset(drs.pass)].thread_blocks),
                           !.querySet = QueryBegin(drs, SORT_PASSES),
                           !.pc = "reduce" ]
    /\ UNCHANGED <<ffx, lb, os, main>>

\* One workgroup of the reduce_hist dispatch.
DRS_ReduceWG(wgid) ==
    /\ drs.pc = "reduce"
    /\ wgid \in drs.pending
    /\ LET lane_count == drs.w.reduce
           b == drs.binds[drs.pass]
           out == ReduceHistWG(drs.mem[b.sort], drs.hist, drs.pass_hist,
                               drs.info, wgid, lane_count)
       IN  IF WidthRejected(lane_count, REDUCE_BLOCK_DIM)
           THEN drs' = [ drs EXCEPT
                   !.status = StatusStore(drs.status, STATUS_ERR_REDUCE,
                                          ERR_REDUCE_CODE, drs.oob),
                   !.pending = drs.pending \ { wgid } ]
           ELSE drs' = [ drs EXCEPT
                   !.status = StatusWidth(drs.status, wgid, drs.info,
                                          STATUS_STAGE_REDUCE, lane_count, drs.oob),
                   !.hist = out.hist,
                   !.pass_hist = out.pass_hist,
                   !.pending = drs.pending \ { wgid } ]
    /\ UNCHANGED <<ffx, lb, os, main>>

\* The scan dispatch (RADIX workgroups), after the reduce_hist dispatch has
\* completed; followed by the dvr_pass dispatch.
DRS_Scan ==
    /\ drs.pc = "reduce"
    /\ PassEnded(drs.pending)
    /\ LET lane_count == drs.w.scan
       IN  IF WidthRejected(lane_count, BLOCK_DIM)
           THEN drs' = [ drs EXCEPT
                   !.status = StatusStore(drs.status, STATUS_ERR_SCAN,
                                          ERR_SCAN_CODE, drs.oob),
                   !.pending = Cells(drs.info.thread_blocks),
                   !.pc = "dvr" ]
           ELSE drs' = [ drs EXCEPT
                   !.status = StatusWidth(drs.status, 0, drs.info,
                                          STATUS_STAGE_SCAN, lane_count, drs.oob),
                   !.pass_hist = ScanDispatch(drs.pass_hist, drs.info, lane_count),
                   !.pending = Cells(drs.info.thread_blocks),
                   !.pc = "dvr" ]
    /\ UNCHANGED <<ffx, lb, os, main>>

\* One workgroup of the dvr_pass dispatch.
DRS_DvrWG(wgid) ==
    /\ drs.pc = "dvr"
    /\ wgid \in drs.pending
    /\ LET lane_count == drs.w.dvr
           b == drs.binds[drs.pass]
       IN  IF CapacityExceeded(lane_count)
           THEN drs' = [ drs EXCEPT
                   !.status = StatusStore(drs.status, STATUS_ERR_DVR,
                                          ERR_DVR_CODE, drs.oob),
                   !.pending = drs.pending \ { wgid } ]
           ELSE drs' = [ drs EXCEPT
                   !.status = StatusWidth(drs.status, wgid, drs.info,
                                          STATUS_STAGE_DVR, lane_count, drs.oob),
                   !.mem = [ drs.mem EXCEPT ![b.alt] =
                               DvrPassWG(drs.mem[b.sort], drs.mem[b.alt], drs.hist,
                                         drs.pass_hist, drs.info, wgid, lane_count) ],
                   !.pending = drs.pending \ { wgid } ]
    /\ UNCHANGED <<ffx, lb, os, main>>

\* The end of a pass of the command buffer: the next pass, or the end of the
\* submitted work (onSubmittedWorkDone resolves).
DRS_EndPass ==
    /\ drs.pc = "dvr"
    /\ PassEnded(drs.pending)
    /\ drs' = IF drs.pass = SORT_PASSES - 1
              THEN [ drs EXCEPT !.querySet = QueryEnd(drs, SORT_PASSES),
                                !.readBuffer = ResolveQuerySet(drs, QueryEnd(drs, SORT_PASSES)),
                                !.pc = "done" ]
              ELSE [ drs EXCEPT !.pass = drs.pass + 1, !.pc = "copy" ]
    /\ UNCHANGED <<ffx, lb, os, main>>

\* A host whose loop stops one slot short.
RECURSIVE ErrorCode_SkipsLast(_, _)
ErrorCode_SkipsLast(statusArray, i) ==
    IF i >= STATUS_ERROR_COUNT - 1 THEN 0
    ELSE IF statusArray[i] # 0 THEN statusArray[i]
    ELSE ErrorCode_SkipsLast(statusArray, i + 1)

\* Lines 695-705: the first non-zero error slot, 0 if none.
RECURSIVE ErrorCode(_, _)
ErrorCode(statusArray, i) ==
    IF i >= STATUS_ERROR_COUNT THEN 0
    ELSE IF statusArray[i] # 0 THEN statusArray[i]
    ELSE ErrorCode(statusArray, i + 1)

\* Lines 721-727: the first non-zero width slot, 0 if none.
RECURSIVE FirstWidth(_, _)
FirstWidth(statusArray, i) ==
    IF i >= STATUS_LENGTH THEN 0
    ELSE IF statusArray[i] # 0 THEN statusArray[i]
    ELSE FirstWidth(statusArray, i + 1)

\* sort(data), lines 695-737: read the status, throw or download and return.
DRS_Readback ==
    /\ drs.pc = "done"
    /\ LET numKeys == Len(drs.data)
           keysArray == drs.mem[drs.sortBuffer]
           valuesArray == drs.mem[drs.payloadBuffer]
       IN  IF ErrorCode(drs.status, 0) # 0
           THEN drs' = [ drs EXCEPT !.pc = "threw" ]
           ELSE drs' = [ drs EXCEPT
                   !.pc = "returned",
                   !.returned = Append(drs.returned,
                                       [ data |-> drs.data,
                                         sorted |-> [ i \in 1 .. numKeys |->
                                            Rec(keysArray[i - 1], valuesArray[i - 1]) ] ]),
                   !.result = << [ sorted |-> [ i \in 1 .. numKeys |->
                                                 Rec(keysArray[i - 1], valuesArray[i - 1]) ],
                                  gpuTime |-> GpuTime(drs),
                                  subgroupSize |->
                                     FirstWidth(drs.status, STATUS_ERROR_COUNT) ] >> ]
    /\ UNCHANGED <<ffx, lb, os, main>>

DRS_Next ==
    \/ \E data \in Inputs : DRS_Sort(data)
    \/ DRS_CopyInfo
    \/ \E wgid \in Cells(CeilDiv(MaxKeys, PART_SIZE)) : DRS_ReduceWG(wgid)
    \/ DRS_Scan
    \/ \E wgid \in Cells(CeilDiv(MaxKeys, PART_SIZE)) : DRS_DvrWG(wgid)
    \/ DRS_EndPass
    \/ DRS_Readback

DRS_Init ==
    /\ \E d \in Devices : drs = DRS_Created(d)
    /\ ffx = Off /\ lb = Off /\ main = Off /\ os = Off

SpecDRS == DRS_Init /\ [][DRS_Next]_vars

----------------------------------------------------------------------------
(* FidelityFX Parallel Sort: constants of class FidelityFXSort and of the  *)
(* five kernels (radix_sort_count, _reduce, _scan, _scan_add, _scatter).   *)

\* scaled: source 4.
ELEMENTS_PER_THREAD == 2

\* scaled: source 128 (THREADGROUP_SIZE / w <= w for the widths 16 and 32,
\* not for 8; THREADGROUP_SIZE >= SORT_BIN_COUNT).
THREADGROUP_SIZE == 4

\* scaled: source 4.
SORT_BITS_PER_PASS == 2

SORT_BIN_COUNT == 2^SORT_BITS_PER_PASS

\* scaled: source 800.
MAX_THREADGROUPS == 2

\* scaled: source 8 ("32 bits / 4 bits per pass").
TOTAL_PASSES == 4

\* scaled: source 2, the bits of one local split of the scatter kernel
\* (bitShift += 2u, & 0x3u).
LOCAL_SPLIT_BITS == 1

\* The bits of one packed counter: source 8 (bitKey * 8u, & 0xFFu), four
\* counters in a u32.
COUNTER_BITS == WORD_BITS \div 2^LOCAL_SPLIT_BITS

FFX_BlockSize == ELEMENTS_PER_THREAD * THREADGROUP_SIZE

GroupThreads == 0 .. THREADGROUP_SIZE - 1

\* (key >> shift) & 0xF
FFX_Bin(key, shift) == (key \div 2^shift) % SORT_BIN_COUNT

\* calculateConstants (lines 919-947).  Math.floor(0 / 0) and 0 % 0 are NaN,
\* which the Int32Array of encodeSortPass stores as 0.
calculateConstantsFor(numKeys, shift, maxThreadGroups) ==
    LET blockSize == ELEMENTS_PER_THREAD * THREADGROUP_SIZE
        numBlocks == CeilDiv(numKeys, blockSize)
        tg == Min(maxThreadGroups, numBlocks)
        less == numBlocks < tg
        numThreadGroups == IF less THEN numBlocks ELSE tg
        blocksPerThreadGroup ==
            IF less THEN 1 ELSE IF tg = 0 THEN 0 ELSE numBlocks \div tg
        additional == IF less \/ tg = 0 THEN 0 ELSE numBlocks % tg
        numReducedThreadGroups ==
            SORT_BIN_COUNT * (IF blockSize > numThreadGroups THEN 1
                              ELSE CeilDiv(numThreadGroups, blockSize))
    IN  [ numKeys |-> numKeys,
          numBlocksPerThreadGroup |-> blocksPerThreadGroup,
          numThreadGroups |-> numThreadGroups,
          numThreadGroupsWithAdditionalBlocks |-> additional,
          numReduceThreadgroupPerBin |-> numReducedThreadGroups \div SORT_BIN_COUNT,
          numScanValues |-> numReducedThreadGroups,
          shift |-> shift ]

calculateConstants(numKeys, shift) ==
    calculateConstantsFor(numKeys, shift, MAX_THREADGROUPS)

\* The value of an i32: the low WORD_BITS bits of x in two's complement.
ToI32(x) ==
    LET m == x % 2^WORD_BITS
    IN  IF m >= 2^(WORD_BITS - 1) THEN m - 2^WORD_BITS ELSE m

\* A count kernel that gives the thread groups with an additional block the
\* start of the others.
FFX_Blocks_NoShift(c, groupID) ==
    LET first == Wrap(c.numThreadGroups - c.numThreadGroupsWithAdditionalBlocks)
    IN  [ start |-> Wrap(FFX_BlockSize * c.numBlocksPerThreadGroup * groupID),
          count |-> IF groupID >= first THEN Wrap(c.numBlocksPerThreadGroup + 1)
                    ELSE c.numBlocksPerThreadGroup ]

\* Count kernel, lines 42-49 (u32 arithmetic): the first index of thread
\* group groupID and the number of blocks it processes.
FFX_Blocks(c, groupID) ==
    LET first == Wrap(c.numThreadGroups - c.numThreadGroupsWithAdditionalBlocks)
        threadgroupBlockStart == Wrap(FFX_BlockSize * c.numBlocksPerThreadGroup * groupID)
    IN  IF groupID >= first
        THEN [ start |-> Wrap(threadgroupBlockStart
                                + Wrap(groupID - first) * FFX_BlockSize),
               count |-> Wrap(c.numBlocksPerThreadGroup + 1) ]
        ELSE [ start |-> threadgroupBlockStart,
               count |-> c.numBlocksPerThreadGroup ]

\* Scatter kernel, lines 71-80: the same in i32 arithmetic (the comparison
\* of line 77 is on u32).
FFX_ScatterBlocks(c, groupID) ==
    LET first == Wrap(c.numThreadGroups - c.numThreadGroupsWithAdditionalBlocks)
        threadgroupBlockStart ==
            ToI32(FFX_BlockSize * c.numBlocksPerThreadGroup * ToI32(groupID))
    IN  IF groupID >= first
        THEN [ start |-> ToI32(threadgroupBlockStart
                                 + ToI32(ToI32(groupID)
                                           - ToI32(ToI32(c.numThreadGroups)
                                                - ToI32(c.numThreadGroupsWithAdditionalBlocks)))
                                     * FFX_BlockSize),
               count |-> ToI32(c.numBlocksPerThreadGroup + 1) ]
        ELSE [ start |-> threadgroupBlockStart,
               count |-> c.numBlocksPerThreadGroup ]

\* select(0xFFFFFFFFu, sourceKeys[i], i < numKeys)
FFX_LoadKey(sourceKeys, c, i) == IF i < c.numKeys THEN sourceKeys[i] ELSE KEY_MAX

\* Count kernel (radix_sort_count.wgsl 28-85), thread group groupID: the
\* indices whose key a thread counts are those below numKeys (dataIndex only
\* advances inside the test of line 66), the key counted is srcKeys[i].
FFX_CountWG(sourceKeys, sumTable, c, groupID) ==
    LET blk == FFX_Blocks(c, groupID)
        counted == { i \in blk.start .. blk.start + blk.count * FFX_BlockSize - 1 :
                       i < c.numKeys }
        sum == [ bin \in 0 .. SORT_BIN_COUNT - 1 |->
                   Cardinality({ i \in counted :
                                   FFX_Bin(FFX_LoadKey(sourceKeys, c, i), c.shift) = bin }) ]
    IN  [ x \in DOMAIN sumTable |->
            IF x % c.numThreadGroups = groupID /\ x \div c.numThreadGroups < SORT_BIN_COUNT
            THEN sum[x \div c.numThreadGroups]
            ELSE sumTable[x] ]

\* subgroupAdd(v) as seen by thread t
SubgroupAdd(v, t, w) == SumFn(v, SubgroupBase(t, w), SubgroupBase(t, w) + w - 1)

\* Reduce kernel (radix_sort_reduce.wgsl 26-64), thread group groupID at
\* subgroup width w: the value stored at reduceTable[groupID].
FFX_ReduceWG(sumTable, c, groupID, w) ==
    LET binID == groupID \div c.numReduceThreadgroupPerBin
        binOffset == binID * c.numThreadGroups
        baseIndex == (groupID % c.numReduceThreadgroupPerBin)
                       * ELEMENTS_PER_THREAD * THREADGROUP_SIZE
        threadgroupSum ==
            Tab([ t \in GroupThreads |->
                    SumFn([ i \in 0 .. ELEMENTS_PER_THREAD - 1 |->
                              LET dataIndex == baseIndex + i * THREADGROUP_SIZE + t
                              IN  IF dataIndex < c.numThreadGroups
                                  THEN sumTable[binOffset + dataIndex] ELSE 0 ],
                          0, ELEMENTS_PER_THREAD - 1) ])
        subgroupSums == Tab([ sid \in 0 .. (THREADGROUP_SIZE \div w) - 1 |->
                                SubgroupAdd(threadgroupSum, sid * w, w) ])
        numSubgroups == CeilDiv(THREADGROUP_SIZE, w)
        subgroupValue == [ t \in GroupThreads |->
                             IF t < numSubgroups THEN subgroupSums[t] ELSE 0 ]
    IN  Wrap(SubgroupAdd(subgroupValue, 0, w))

\* Lines 59-106 of radix_sort_scan.wgsl and 145-185 of the scan-add kernel:
\* the block scan both share.  val maps the element e = i * THREADGROUP_SIZE
\* + localID to the value loaded for it; the result maps e to
\* ldsData[e % ELEMENTS_PER_THREAD][e / ELEMENTS_PER_THREAD] after line 106.
FFX_BlockScan(val, w) ==
    LET col(t) == [ i \in 0 .. ELEMENTS_PER_THREAD - 1 |-> val[t * ELEMENTS_PER_THREAD + i] ]
        threadgroupSum == Tab([ t \in GroupThreads |->
                                  SumFn(col(t), 0, ELEMENTS_PER_THREAD - 1) ])
        subgroupPrefixed == Tab([ t \in GroupThreads |->
                                    SubgroupExclusiveAdd(threadgroupSum, t, w) ])
        numSubgroups == THREADGROUP_SIZE \div w
        subgroupSums == Tab([ sid \in 0 .. numSubgroups - 1 |->
                                subgroupPrefixed[sid * w + w - 1]
                                  + threadgroupSum[sid * w + w - 1] ])
        valueToScan == Tab([ t \in GroupThreads |->
                               IF t < numSubgroups THEN subgroupSums[t] ELSE 0 ])
        scanned == Tab([ sid \in 0 .. numSubgroups - 1 |->
                           SubgroupExclusiveAdd(valueToScan, sid, w) ])
        finalPrefixSum(t) == subgroupPrefixed[t] + scanned[t \div w]
    IN  Tab([ e \in 0 .. FFX_BlockSize - 1 |->
                Wrap(SumFn(col(e \div ELEMENTS_PER_THREAD), 0, (e % ELEMENTS_PER_THREAD) - 1)
                     + finalPrefixSum(e \div ELEMENTS_PER_THREAD)) ])

\* Scan kernel (radix_sort_scan.wgsl 33-121), thread group groupID: the new
\* contents of scanDest.
FFX_ScanWG(scanSource, scanDest, c, groupID, w) ==
    LET baseIndex == ELEMENTS_PER_THREAD * THREADGROUP_SIZE * groupID
        val == [ e \in 0 .. FFX_BlockSize - 1 |->
                   IF baseIndex + e < c.numScanValues THEN scanSource[baseIndex + e] ELSE 0 ]
        out == FFX_BlockScan(val, w)
    IN  [ x \in DOMAIN scanDest |->
            IF x >= baseIndex /\ x < baseIndex + FFX_BlockSize /\ x < c.numScanValues
            THEN out[x - baseIndex] ELSE scanDest[x] ]

\* Scan-add kernel (radix_sort_scan_add.wgsl 115-203), thread group groupID:
\* the new contents of sumTable.
FFX_ScanAddWG(sumTable, scanScratch, c, groupID, w) ==
    LET binID == groupID \div c.numReduceThreadgroupPerBin
        binOffset == binID * c.numThreadGroups
        baseIndex == (groupID % c.numReduceThreadgroupPerBin)
                       * ELEMENTS_PER_THREAD * THREADGROUP_SIZE
        val == [ e \in 0 .. FFX_BlockSize - 1 |->
                   IF baseIndex + e < c.numThreadGroups
                   THEN sumTable[binOffset + baseIndex + e] ELSE 0 ]
        out == FFX_BlockScan(val, w)
        partialSum == scanScratch[groupID]
    IN  [ x \in DOMAIN sumTable |->
            LET dataIndex == x - binOffset
            IN  IF dataIndex >= baseIndex /\ dataIndex < baseIndex + FFX_BlockSize
                   /\ dataIndex < c.numThreadGroups
                THEN Wrap(out[dataIndex - baseIndex] + partialSum)
                ELSE sumTable[x] ]

\* Scatter kernel, workgroupPrefixScan (lines 36-54): the doubling loop over
\* ldsSums from the given step on.
RECURSIVE FFX_Doubling(_, _)
FFX_Doubling(ldsSums, step) ==
    IF step >= THREADGROUP_SIZE THEN ldsSums
    ELSE FFX_Doubling([ t \in GroupThreads |->
                          Wrap(ldsSums[t] + (IF t >= step THEN ldsSums[t - step] ELSE 0)) ],
                      2 * step)

\* workgroupPrefixScan(localSum, localID): ldsSums when it returns (the
\* inclusive sums) and the result of every thread (the exclusive sums).
workgroupPrefixScan(localSum) ==
    LET incl == Tab(FFX_Doubling(localSum, 1))
    IN  [ ldsSums |-> incl,
          result |-> Tab([ t \in GroupThreads |-> IF t > 0 THEN incl[t - 1] ELSE 0 ]) ]

\* ldsSums[keyOffset] = x of every thread, in thread order from thread t on.
RECURSIVE FFX_Rearrange(_, _, _, _)
FFX_Rearrange(ldsSums, keyOffset, x, t) ==
    IF t = THREADGROUP_SIZE THEN ldsSums
    ELSE FFX_Rearrange(IF keyOffset[t] \in DOMAIN ldsSums
                       THEN [ ldsSums EXCEPT ![keyOffset[t]] = x[t] ] ELSE ldsSums,
                       keyOffset, x, t + 1)

\* A kernel that does not add the shifted sums.
FFX_PackedOffsets_None(packedSum) == 0

\* (packedSum << 8u) + (packedSum << 16u) + (packedSum << 24u): the sum of the
\* shifts by j counters, j = 1 .. (counters in a word) - 1.
FFX_PackedOffsets(packedSum) ==
    Wrap(SumFn([ j \in 1 .. 2^LOCAL_SPLIT_BITS - 1 |->
                   Wrap(packedSum * 2^(j * COUNTER_BITS)) ],
               1, 2^LOCAL_SPLIT_BITS - 1))

\* Lines 121-159: one local split, of the bits of the digit from bitShift
\* on; st holds localKey and localValue of every thread.  The record holds
\* the values the threads compute and the rearranged keys and values.
FFX_LocalSplit(st, shift, bitShift) ==
    LET bitKey == Tab([ t \in GroupThreads |->
                          (FFX_Bin(st.key[t], shift) \div 2^bitShift)
                             % 2^LOCAL_SPLIT_BITS ])
        packedHistogram == Tab([ t \in GroupThreads |->
                                   Wrap(2^(bitKey[t] * COUNTER_BITS)) ])
        scan == workgroupPrefixScan(packedHistogram)
        localSum == scan.result
        ldsScratch0 == Wrap(localSum[THREADGROUP_SIZE - 1]
                              + packedHistogram[THREADGROUP_SIZE - 1])
        packedSum == FFX_PackedOffsets(ldsScratch0)
        localOffset == Tab([ t \in GroupThreads |-> Wrap(localSum[t] + packedSum) ])
        keyOffset == Tab([ t \in GroupThreads |->
                             (localOffset[t] \div 2^(bitKey[t] * COUNTER_BITS))
                                % 2^COUNTER_BITS ])
        keys == Tab(FFX_Rearrange(scan.ldsSums, keyOffset, st.key, 0))
        values == Tab(FFX_Rearrange(keys, keyOffset, st.value, 0))
    IN  [ bitKey |-> bitKey, localSum |-> localSum, ldsScratch0 |-> ldsScratch0,
          packedSum |-> packedSum, localOffset |-> localOffset,
          keyOffset |-> keyOffset, key |-> keys, value |-> values ]

\* Lines 119-160: the local splits of one round from bitShift on.
RECURSIVE FFX_LocalSort(_, _, _)
FFX_LocalSort(st, shift, bitShift) ==
    IF bitShift >= SORT_BITS_PER_PASS THEN st
    ELSE LET split == FFX_LocalSplit(st, shift, bitShift)
         IN  FFX_LocalSort([ key |-> split.key, value |-> split.value ], shift,
                           bitShift + LOCAL_SPLIT_BITS)

\* The stores of one round to destKeys / destValues, thread by thread.
RECURSIVE FFX_Write(_, _, _, _, _)
FFX_Write(dest, totalOffset, st, c, t) ==
    IF t = THREADGROUP_SIZE THEN dest
    ELSE FFX_Write(IF totalOffset[t] < c.numKeys /\ st.key[t] # KEY_MAX
                      /\ totalOffset[t] \in DOMAIN dest.keys
                   THEN [ keys |-> [ dest.keys EXCEPT ![totalOffset[t]] = st.key[t] ],
                          values |-> [ dest.values EXCEPT ![totalOffset[t]] = st.value[t] ] ]
                   ELSE dest,
                   totalOffset, st, c, t + 1)

\* Lines 86-214: the rounds of thread group groupID from round r on; round r
\* is iteration i = r % ELEMENTS_PER_THREAD of block r / ELEMENTS_PER_THREAD.
\* dest holds destKeys and destValues.
RECURSIVE FFX_Rounds(_, _, _, _, _, _, _)
FFX_Rounds(sourceKeys, sourceValues, dest, binOffsetCache, c, blk, r) ==
    IF r >= blk.count * ELEMENTS_PER_THREAD THEN dest
    ELSE LET idx(t) == blk.start + t + (r \div ELEMENTS_PER_THREAD) * FFX_BlockSize
                         + (r % ELEMENTS_PER_THREAD) * THREADGROUP_SIZE
             loaded == [ key |-> [ t \in GroupThreads |->
                                     FFX_LoadKey(sourceKeys, c, idx(t)) ],
                         value |-> [ t \in GroupThreads |->
                                       IF idx(t) < c.numKeys THEN sourceValues[idx(t)]
                                       ELSE 0 ] ]
             st == FFX_LocalSort(loaded, c.shift, 0)
             keyIndex == Tab([ t \in GroupThreads |-> FFX_Bin(st.key[t], c.shift) ])
             localHistogram ==
                 Tab([ bin \in 0 .. SORT_BIN_COUNT - 1 |->
                         Cardinality({ t \in GroupThreads :
                                         st.key[t] # KEY_MAX /\ keyIndex[t] = bin }) ])
             ldsScratch == Tab([ bin \in 0 .. SORT_BIN_COUNT - 1 |->
                                   SumFn(localHistogram, 0, bin - 1) ])
             totalOffset == Tab([ t \in GroupThreads |->
                                    Wrap(binOffsetCache[keyIndex[t]]
                                         + Wrap(t - ldsScratch[keyIndex[t]])) ])
         IN  FFX_Rounds(sourceKeys, sourceValues,
                        FFX_Write(dest, totalOffset, st, c, 0),
                        [ bin \in 0 .. SORT_BIN_COUNT - 1 |->
                            Wrap(binOffsetCache[bin] + localHistogram[bin]) ],
                        c, blk, r + 1)

\* Scatter kernel (radix_sort_scatter.wgsl 56-215), thread group groupID: the
\* new contents of destKeys and destValues.
FFX_ScatterWG(sourceKeys, sourceValues, dest, sumTable, c, groupID) ==
    FFX_Rounds(sourceKeys, sourceValues, dest,
               [ bin \in 0 .. SORT_BIN_COUNT - 1 |->
                   sumTable[bin * c.numThreadGroups + groupID] ],
               c, FFX_ScatterBlocks(c, groupID), 0)

----------------------------------------------------------------------------
(* FidelityFXSort, host side, and the execution of its command buffer.     *)
(* ffx is the engine with its device buffers:                              *)
(*   pc                 idle, copy, count, reduce, scan, scanAdd, scatter, *)
(*                      done, returned                                     *)
(*   keysBuffers, valuesBuffers   the two ping-pong buffers of each kind   *)
(*   sumTable, reduceTable, scanScratch, constants, constantsUpload        *)
(*   sourceIndex        the value of the local of sort() after its loop    *)
(*   pass, pending      as for DeviceRadixSort                             *)
(*   w                  the subgroup width of the reduce, scan and         *)
(*                      scan-add pipelines (count and scatter use no       *)
(*                      subgroup operation)                                *)
(*   data, submits, result   as for DeviceRadixSort                        *)

FFX_Devices == [ reduce : Widths, scan : Widths, scanAdd : Widths ]

\* createBuffers (lines 843-896).
FFX_Created(d) ==
    LET numBlocks == CeilDiv(MaxKeys, FFX_BlockSize)
        numReducedBlocks == CeilDiv(numBlocks, FFX_BlockSize)
    IN  [ pc |-> "idle",
          keysBuffers |-> [ b \in 0 .. 1 |-> Zeros(MaxKeys) ],
          valuesBuffers |-> [ b \in 0 .. 1 |-> Zeros(MaxKeys) ],
          sumTable |-> Zeros(SORT_BIN_COUNT * numBlocks),
          reduceTable |-> Zeros(SORT_BIN_COUNT * numReducedBlocks),
          scanScratch |-> Zeros(SORT_BIN_COUNT * numReducedBlocks),
          constants |-> calculateConstants(0, 0),
          constantsUpload |-> [ p \in Cells(TOTAL_PASSES) |-> calculateConstants(0, 0) ],
          sourceIndex |-> 0, pass |-> 0, pending |-> {}, w |-> d,
          timingSupported |-> TRUE, querySet |-> Zeros(2), readBuffer |-> Zeros(2),
          data |-> << >>, submits |-> 0, result |-> << >>,
          returned |-> << >> ]

\* sort(data), lines 949-972, with encodeSortPass (1002-1122) for every pass:
\* upload into buffers 0, write the constants of the pass, bind source and
\* destination by the parity of the pass, submit once.
FFX_Sort(data) ==
    /\ ffx.pc = "idle"
    /\ LET numKeys == Len(data)
           keys == [ i \in 1 .. numKeys |-> data[i].key ]
           values == [ i \in 1 .. numKeys |-> data[i].value ]
       IN  ffx' = [ ffx EXCEPT
              !.data = data,
              !.keysBuffers = [ ffx.keysBuffers EXCEPT
                                  ![0] = WriteBuffer(ffx.keysBuffers[0], keys) ],
              !.valuesBuffers = [ ffx.valuesBuffers EXCEPT
                                    ![0] = WriteBuffer(ffx.valuesBuffers[0], values) ],
              !.constantsUpload = UploadSlots(ffx.constantsUpload,
                                     [ p \in Cells(TOTAL_PASSES) |->
                                         calculateConstants(numKeys,
                                             ShiftOfPass(p, SORT_BITS_PER_PASS)) ]),
              !.sourceIndex = TOTAL_PASSES % 2,
              !.submits = ffx.submits + 1,
              !.pass = 0, !.pending = {}, !.pc = "copy" ]
    /\ UNCHANGED <<drs, lb, os, main>>

\* encodeSortPass: sourceIndex and destIndex of the pass being executed.
FFX_Source == ffx.pass % 2

\* A destination that aliases the source.
FFX_Dest_Aliased == FFX_Source

FFX_Dest == 1 - FFX_Source

\* encoder.copyBufferToBuffer(constantsUploadBuffer, passIndex * 32,
\* constantsBuffer, 0, 32), followed by the count dispatch.
FFX_CopyConstants ==
    /\ ffx.pc = "copy"
    /\ ffx' = [ ffx EXCEPT
          !.constants = ffx.constantsUpload[InfoOffset(ffx.pass)],
          !.pending = Cells(ffx.constantsUpload[InfoOffset(ffx.pass)].numThreadGroups),
          !.querySet = QueryBegin(ffx, TOTAL_PASSES),
          !.pc = "count" ]
    /\ UNCHANGED <<drs, lb, os, main>>

\* One thread group of the count dispatch.
FFX_DispatchCount(groupID) ==
    /\ ffx.pc = "count"
    /\ groupID \in ffx.pending
    /\ ffx' = [ ffx EXCEPT
          !.sumTable = FFX_CountWG(ffx.keysBuffers[FFX_Source], ffx.sumTable,
                                   ffx.constants, groupID),
          !.pending = ffx.pending \ { groupID } ]
    /\ UNCHANGED <<drs, lb, os, main>>

\* The reduce dispatch (numScanValues thread groups).
FFX_DispatchReduce ==
    /\ ffx.pc = "count"
    /\ PassEnded(ffx.pending)
    /\ ffx' = [ ffx EXCEPT
          !.reduceTable =
              [ g \in DOMAIN ffx.reduceTable |->
                  IF g < ffx.constants.numScanValues
                  THEN FFX_ReduceWG(ffx.sumTable, ffx.constants, g, ffx.w.reduce)
                  ELSE ffx.reduceTable[g] ],
          !.pc = "scan" ]
    /\ UNCHANGED <<drs, lb, os, main>>

RECURSIVE FFX_ScanGroups(_, _, _, _, _)
FFX_ScanGroups(scanSource, scanDest, c, w, groupID) ==
    IF groupID >= CeilDiv(c.numScanValues, FFX_BlockSize) THEN scanDest
    ELSE FFX_ScanGroups(scanSource, FFX_ScanWG(scanSource, scanDest, c, groupID, w),
                        c, w, groupID + 1)

\* The scan dispatch (ceil(numScanValues / blockSize) thread groups).
FFX_DispatchScan ==
    /\ ffx.pc = "scan"
    /\ ffx' = [ ffx EXCEPT
          !.scanScratch = FFX_ScanGroups(ffx.reduceTable, ffx.scanScratch,
                                         ffx.constants, ffx.w.scan, 0),
          !.pc = "scanAdd" ]
    /\ UNCHANGED <<drs, lb, os, main>>

RECURSIVE FFX_ScanAddGroups(_, _, _, _, _)
FFX_ScanAddGroups(sumTable, scanScratch, c, w, groupID) ==
    IF groupID >= c.numScanValues THEN sumTable
    ELSE FFX_ScanAddGroups(Tab(FFX_ScanAddWG(sumTable, scanScratch, c, groupID, w)),
                           scanScratch, c, w, groupID + 1)

\* The scan-add dispatch (numScanValues thread groups, each on its own part
\* of sumTable), followed by the scatter dispatch.
FFX_DispatchScanAdd ==
    /\ ffx.pc = "scanAdd"
    /\ ffx' = [ ffx EXCEPT
          !.sumTable = FFX_ScanAddGroups(ffx.sumTable, ffx.scanScratch,
                                         ffx.constants, ffx.w.scanAdd, 0),
          !.pending = Cells(ffx.constants.numThreadGroups),
          !.pc = "scatter" ]
    /\ UNCHANGED <<drs, lb, os, main>>

\* One thread group of the scatter dispatch.
FFX_DispatchScatter(groupID) ==
    /\ ffx.pc = "scatter"
    /\ groupID \in ffx.pending
    /\ LET out == FFX_ScatterWG(ffx.keysBuffers[FFX_Source], ffx.valuesBuffers[FFX_Source],
                                [ keys |-> ffx.keysBuffers[FFX_Dest],
                                  values |-> ffx.valuesBuffers[FFX_Dest] ],
                                ffx.sumTable, ffx.constants, groupID)
       IN  ffx' = [ ffx EXCEPT
              !.keysBuffers = [ ffx.keysBuffers EXCEPT ![FFX_Dest] = out.keys ],
              !.valuesBuffers = [ ffx.valuesBuffers EXCEPT ![FFX_Dest] = out.values ],
              !.pending = ffx.pending \ { groupID } ]
    /\ UNCHANGED <<drs, lb, os, main>>

\* The end of a pass of the command buffer.
FFX_EndPass ==
    /\ ffx.pc = "scatter"
    /\ PassEnded(ffx.pending)
    /\ ffx' = IF ffx.pass = TOTAL_PASSES - 1
              THEN [ ffx EXCEPT !.querySet = QueryEnd(ffx, TOTAL_PASSES),
                                !.readBuffer = ResolveQuerySet(ffx, QueryEnd(ffx, TOTAL_PASSES)),
                                !.pc = "done" ]
              ELSE [ ffx EXCEPT !.pass = ffx.pass + 1, !.pc = "copy" ]
    /\ UNCHANGED <<drs, lb, os, main>>

\* sort(data), lines 985-999: download keysBuffers[sourceIndex] and
\* valuesBuffers[sourceIndex] and return; no status is read.
FFX_Readback ==
    /\ ffx.pc = "done"
    /\ LET keysArray == ffx.keysBuffers[ffx.sourceIndex]
           valuesArray == ffx.valuesBuffers[ffx.sourceIndex]
       IN  ffx' = [ ffx EXCEPT
              !.pc = "returned",
              !.returned = Append(ffx.returned,
                                  [ data |-> ffx.data,
                                    sorted |-> [ i \in 1 .. Len(ffx.data) |->
                                       Rec(keysArray[i - 1], valuesArray[i - 1]) ] ]),
              !.result = << [ sorted |-> [ i \in 1 .. Len(ffx.data) |->
                                            Rec(keysArray[i - 1], valuesArray[i - 1]) ],
                              gpuTime |-> GpuTime(ffx) ] >> ]
    /\ UNCHANGED <<drs, lb, os, main>>

FFX_Next ==
    \/ \E data \in Inputs : FFX_Sort(data)
    \/ FFX_CopyConstants
    \/ \E groupID \in Cells(MAX_THREADGROUPS) : FFX_DispatchCount(groupID)
    \/ FFX_DispatchReduce
    \/ FFX_DispatchScan
    \/ FFX_DispatchScanAdd
    \/ \E groupID \in Cells(MAX_THREADGROUPS) : FFX_DispatchScatter(groupID)
    \/ FFX_EndPass
    \/ FFX_Readback

FFX_Init ==
    /\ \E d \in FFX_Devices : ffx = FFX_Created(d)
    /\ drs = Off /\ lb = Off /\ main = Off /\ os = Off

SpecFFX == FFX_Init /\ [][FFX_Next]_vars

\* Every pipeline of the engine runs at a width for which the second-level
\* subgroup reduction / scan covers all subgroups of the thread group
\* (source: at least 16 lanes).
FfxWidthsSupported ==
    \A x \in { ffx.w.reduce, ffx.w.scan, ffx.w.scanAdd } :
        THREADGROUP_SIZE \div x <= x

----------------------------------------------------------------------------
(* The lookback status cell of OneSweep: a 2-bit flag packed with a count. *)

FLAG_BITS == 2

FLAG_NOT_READY == 0

FLAG_AGGREGATE == 1

FLAG_INCLUSIVE == 2

\* The count field of a cell (source: 30 bits of a 32-bit word).
COUNT_BITS == WORD_BITS - FLAG_BITS

LB_Pack(count, flag) == (count % 2^COUNT_BITS) * 2^FLAG_BITS + flag

LB_Flag(cell) == cell % 2^FLAG_BITS

\* A reader that forgets to strip the flag.
LB_Count_Packed(cell) == cell

LB_Count(cell) == cell \div 2^FLAG_BITS

\* A host that leaves position 0 cleared.
passHistInit_Unseeded(slot) == FLAG_NOT_READY

\* OneSweep.sort, lines 195-205: pass_hist is zero-filled, then position 0 of
\* the pass is set to (0 << 2) | FLAG_INCLUSIVE.
passHistInit(slot) == IF slot = 0 THEN FLAG_INCLUSIVE ELSE 0

----------------------------------------------------------------------------
(* OneSweep, host side (src/src/sorting/OneSweep.js).                      *)
(*                                                                         *)
(* The three kernels (global_hist, onesweep_scan, onesweep_pass) are in    *)
(* shaders/onesweep/OneSweep.wgsl, which is not part of the source tree.   *)
(* They are modelled by their contract in the specification: a workgroup   *)
(* that observes a subgroup width below the minimum writes its sentinel    *)
(* to the status register and returns; otherwise the workgroups of a pass  *)
(* together move every record of the source buffer to its stable position  *)
(* by the digit of the pass.  The lookback inside onesweep_pass is the     *)
(* subject of the preceding section.                                       *)
(* os is the engine with its device buffers:                               *)
(*   pc       idle, copy, hist, sweep, done, threw, returned               *)
(*   keys, values   the ping-pong buffers (0: sortBuffer / payloadBuffer,  *)
(*                  1: altBuffer / altPayloadBuffer)                       *)
(*   pass_hist      the lookback status cells, a region of threadBlocks    *)
(*                  slots of RADIX cells for every pass                    *)
(*   status, info, infoUpload, pass, pending, w, data, submits, result     *)
(*            as for DeviceRadixSort                                       *)

OS_SORT_PASSES == 4

OS_PART_SIZE == 8

OS_REDUCE_PART_SIZE == 8

OS_STATUS_ERROR_COUNT == 3

OS_STATUS_LENGTH == OS_STATUS_ERROR_COUNT

\* The codes sort() decodes (lines 312-314; source: 0xDEAD0001, 0xDEAD0002,
\* 0xDEAD0004).
OS_ERR_GLOBAL_HIST == 209

OS_ERR_SCAN == 210

OS_ERR_PASS == 212

OS_Devices == [ globalHist : Widths, scan : Widths, pass : Widths, stores : BOOLEAN ]

\* createBuffers (lines 84-146).
OS_Created(d) ==
    [ pc |-> "idle",
      keys |-> [ b \in 0 .. 1 |-> Zeros(MaxKeys) ],
      values |-> [ b \in 0 .. 1 |-> Zeros(MaxKeys) ],
      status |-> Zeros(OS_STATUS_LENGTH),
      pass_hist |-> Zeros(CeilDiv(MaxKeys, OS_PART_SIZE) * RADIX * OS_SORT_PASSES),
      info |-> NoInfo,
      infoUpload |-> [ p \in Cells(OS_SORT_PASSES) |-> NoInfo ],
      pass |-> 0, pending |-> {}, w |-> d,
      timingSupported |-> TRUE, querySet |-> Zeros(2), readBuffer |-> Zeros(2),
      data |-> << >>, submits |-> 0, result |-> << >>,
          returned |-> << >> ]

\* The width check of a kernel.
OS_Rejected(lane_count) == lane_count < MIN_SUBGROUP_SIZE

\* A host that seeds the region of pass 0 only.
OS_PassHistInit_FirstPass(threadBlocks) ==
    [ i \in 1 .. threadBlocks * RADIX * OS_SORT_PASSES |->
        IF i - 1 < RADIX THEN FLAG_INCLUSIVE ELSE 0 ]

\* Lines 195-204: the array written to passHistBuffer, zero-filled, with
\* the first RADIX cells of the region of every pass (offset pass *
\* threadBlocks * RADIX) set to FLAG_INCLUSIVE; empty when threadBlocks = 0.
OS_PassHistInit(threadBlocks) ==
    [ i \in 1 .. threadBlocks * RADIX * OS_SORT_PASSES |->
        passHistInit(((i - 1) % (threadBlocks * RADIX)) \div RADIX) ]

\* sort(data), lines 169-285: upload, clear the status, initialise pass_hist,
\* write the info of every pass, encode the passes, submit once.
OS_Sort(data) ==
    /\ os.pc = "idle"
    /\ LET numKeys == Len(data)
           threadBlocks == CeilDiv(numKeys, OS_PART_SIZE)
           keys == [ i \in 1 .. numKeys |-> data[i].key ]
           values == [ i \in 1 .. numKeys |-> data[i].value ]
       IN  os' = [ os EXCEPT
              !.data = data,
              !.keys = [ os.keys EXCEPT ![0] = WriteBuffer(os.keys[0], keys) ],
              !.values = [ os.values EXCEPT ![0] = WriteBuffer(os.values[0], values) ],
              !.status = WriteBuffer(os.status, ZeroFill(OS_STATUS_LENGTH)),
              !.pass_hist = WriteBuffer(os.pass_hist, OS_PassHistInit(threadBlocks)),
              !.infoUpload = UploadSlots(os.infoUpload,
                                [ p \in Cells(OS_SORT_PASSES) |->
                                    [ size |-> numKeys,
                                      shift |-> ShiftOfPass(p, RADIX_LOG),
                                      thread_blocks |-> threadBlocks ] ]),
              !.submits = os.submits + 1,
              !.pass = 0, !.pending = {}, !.pc = "copy" ]
    /\ UNCHANGED <<drs, ffx, lb, main>>

\* encoder.copyBufferToBuffer(infoUploadBuffer, pass * 16, infoBuffer, 0, 16),
\* followed by the global_hist dispatch in pass 0 (lines 246-258).
OS_CopyInfo ==
    /\ os.pc = "copy"
    /\ os' = [ os EXCEPT
          !.info = os.infoUpload[InfoOffset(os.pass)],
          !.pending = IF os.pass = 0
                      THEN Cells(CeilDiv(os.infoUpload[InfoOffset(os.pass)].size,
                                         OS_REDUCE_PART_SIZE))
                      ELSE {},
          !.querySet = QueryBegin(os, OS_SORT_PASSES),
          !.pc = "hist" ]
    /\ UNCHANGED <<drs, ffx, lb, main>>

\* One workgroup of global_hist.
OS_GlobalHistWG(wgid) ==
    /\ os.pc = "hist"
    /\ wgid \in os.pending
    /\ os' = [ os EXCEPT
          !.status = IF OS_Rejected(os.w.globalHist)
                     THEN [ os.status EXCEPT ![0] = OS_ERR_GLOBAL_HIST ]
                     ELSE os.status,
          !.pending = os.pending \ { wgid } ]
    /\ UNCHANGED <<drs, ffx, lb, main>>

\* The single workgroup of onesweep_scan (lines 261-265), followed by the
\* onesweep_pass dispatch of threadBlocks workgroups (lines 268-278).
OS_Scan ==
    /\ os.pc = "hist"
    /\ PassEnded(os.pending)
    /\ os' = [ os EXCEPT
          !.status = IF OS_Rejected(os.w.scan)
                     THEN [ os.status EXCEPT ![1] = OS_ERR_SCAN ]
                     ELSE os.status,
          !.pending = Cells(os.info.thread_blocks),
          !.pc = "sweep" ]
    /\ UNCHANGED <<drs, ffx, lb, main>>

\* The position of record i of the source in the stable order by the digit
\* of the pass.
OS_Rank(src, info, i) ==
    Cardinality({ j \in Cells(info.size) :
                    \/ Digit(src[j], info.shift) < Digit(src[i], info.shift)
                    \/ Digit(src[j], info.shift) = Digit(src[i], info.shift) /\ j < i })

\* The records of partition wgid, each stored at its position; ranks are
\* those of the keys.
RECURSIVE OS_Scatter(_, _, _, _, _, _)
OS_Scatter(dst, src, keys, info, wgid, n) ==
    IF n = 0 THEN dst
    ELSE LET i == wgid * OS_PART_SIZE + n - 1
             rest == OS_Scatter(dst, src, keys, info, wgid, n - 1)
         IN  IF i < info.size
             THEN [ rest EXCEPT ![OS_Rank(keys, info, i)] = src[i] ]
             ELSE rest

\* The status cells partition wgid leaves behind: for every digit, the
\* count of the digit in the partitions 0 .. wgid as INCLUSIVE_READY, in the
\* slot its successor reads first (slot wgid + 1 of the region of the pass);
\* the last partition has no successor.
OS_Publish(pass_hist, src, info, wgid) ==
    LET region == (info.shift \div RADIX_LOG) * info.thread_blocks * RADIX
        upto == Min(info.size, (wgid + 1) * OS_PART_SIZE)
        incl(d) == Cardinality({ j \in Cells(upto) : Digit(src[j], info.shift) = d })
    IN  [ x \in DOMAIN pass_hist |->
            IF /\ wgid + 1 < info.thread_blocks
               /\ x >= region + (wgid + 1) * RADIX
               /\ x < region + (wgid + 2) * RADIX
            THEN LB_Pack(incl((x - region) % RADIX), FLAG_INCLUSIVE)
            ELSE pass_hist[x] ]

\* One workgroup of onesweep_pass.  A workgroup that runs after an earlier
\* kernel of the chain has rejected works from offsets that were never
\* computed: what it stores is then arbitrary and depends on the device,
\* stood for by the two outcomes "as if the offsets were right" and
\* "nothing stored" (os.w.stores).
OS_PassWG(wgid) ==
    /\ os.pc = "sweep"
    /\ wgid \in os.pending
    /\ LET source == os.pass % 2
           dest == 1 - source
           sound == os.status[0] = 0 /\ os.status[1] = 0
       IN  IF OS_Rejected(os.w.pass)
           THEN os' = [ os EXCEPT
                   !.status = [ os.status EXCEPT ![2] = OS_ERR_PASS ],
                   !.pending = os.pending \ { wgid } ]
           ELSE IF ~sound /\ ~os.w.stores
           THEN os' = [ os EXCEPT !.pending = os.pending \ { wgid } ]
           ELSE os' = [ os EXCEPT
                   !.keys = [ os.keys EXCEPT ![dest] =
                                OS_Scatter(os.keys[dest], os.keys[source], os.keys[source],
                                           os.info, wgid, OS_PART_SIZE) ],
                   !.values = [ os.values EXCEPT ![dest] =
                                  OS_Scatter(os.values[dest], os.values[source],
                                             os.keys[source], os.info, wgid, OS_PART_SIZE) ],
                   !.pass_hist = OS_Publish(os.pass_hist, os.keys[source], os.info, wgid),
                   !.pending = os.pending \ { wgid } ]
    /\ UNCHANGED <<drs, ffx, lb, main>>

\* The end of a pass of the command buffer.
OS_EndPass ==
    /\ os.pc = "sweep"
    /\ PassEnded(os.pending)
    /\ os' = IF os.pass = OS_SORT_PASSES - 1
             THEN [ os EXCEPT !.querySet = QueryEnd(os, OS_SORT_PASSES),
                               !.readBuffer = ResolveQuerySet(os, QueryEnd(os, OS_SORT_PASSES)),
                               !.pc = "done" ]
             ELSE [ os EXCEPT !.pass = os.pass + 1, !.pc = "copy" ]
    /\ UNCHANGED <<drs, ffx, lb, main>>

\* Lines 303-308: the first non-zero error slot, 0 if none.
RECURSIVE OS_ErrorCode(_, _)
OS_ErrorCode(statusArray, i) ==
    IF i >= OS_STATUS_ERROR_COUNT THEN 0
    ELSE IF statusArray[i] # 0 THEN statusArray[i]
    ELSE OS_ErrorCode(statusArray, i + 1)

\* sort(data), lines 296-333: read the status, throw or download the final
\* buffers and return.
OS_Readback ==
    /\ os.pc = "done"
    /\ LET numKeys == Len(os.data)
           final == OS_SORT_PASSES % 2
           keysArray == os.keys[final]
           valuesArray == os.values[final]
       IN  IF OS_ErrorCode(os.status, 0) # 0
           THEN os' = [ os EXCEPT !.pc = "threw" ]
           ELSE os' = [ os EXCEPT
                   !.pc = "returned",
                   !.returned = Append(os.returned,
                                       [ data |-> os.data,
                                         sorted |-> [ i \in 1 .. numKeys |->
                                            Rec(keysArray[i - 1], valuesArray[i - 1]) ] ]),
                   !.result = << [ sorted |-> [ i \in 1 .. numKeys |->
                                                 Rec(keysArray[i - 1], valuesArray[i - 1]) ],
                                  gpuTime |-> GpuTime(os) ] >> ]
    /\ UNCHANGED <<drs, ffx, lb, main>>

OS_Next ==
    \/ \E data \in Inputs : OS_Sort(data)
    \/ OS_CopyInfo
    \/ \E wgid \in Cells(CeilDiv(MaxKeys, OS_REDUCE_PART_SIZE)) : OS_GlobalHistWG(wgid)
    \/ OS_Scan
    \/ \E wgid \in Cells(CeilDiv(MaxKeys, OS_PART_SIZE)) : OS_PassWG(wgid)
    \/ OS_EndPass
    \/ OS_Readback

OS_Init ==
    /\ \E d \in OS_Devices : os = OS_Created(d)
    /\ drs = Off /\ ffx = Off /\ lb = Off /\ main = Off

SpecOS == OS_Init /\ [][OS_Next]_vars

\* The two engines with a status register, one per behaviour.
SpecHosts == (DRS_Init \/ OS_Init) /\ [][DRS_Next \/ OS_Next]_vars

----------------------------------------------------------------------------
(* Repeated sorts.  The engines are constructed once (initWebGPU) and every *)
(* click on the run button calls sort() of the same engine again            *)
(* (setupEventListeners, runSortingTest), on buffers that hold what the     *)
(* previous call left.                                                      *)

\* Calls of sort() on one engine.
MaxSorts == 2

\* Sizes of the inputs of repeated sorts: empty, one record, and two
\* partitions and one key.
ReuseSizes == { 0, 1, MaxKeys }

ReuseInputs == { d \in Inputs : Len(d) \in ReuseSizes }

\* What a call of sort() on engine e may be given: an input, or the records
\* the previous call returned.
ReuseData(e) ==
    IF e.pc = "off" THEN {}
    ELSE ReuseInputs \cup
            (IF e.result # << >> THEN { e.result[1].sorted } ELSE {})

\* The previous call has returned or thrown; the engine is called again.
DRS_Again ==
    /\ drs.pc \in { "returned", "threw" }
    /\ drs.submits < MaxSorts
    /\ drs' = [ drs EXCEPT !.pc = "idle" ]
    /\ UNCHANGED <<ffx, lb, os, main>>

FFX_Again ==
    /\ ffx.pc = "returned"
    /\ ffx.submits < MaxSorts
    /\ ffx' = [ ffx EXCEPT !.pc = "idle" ]
    /\ UNCHANGED <<drs, lb, os, main>>

OS_Again ==
    /\ os.pc \in { "returned", "threw" }
    /\ os.submits < MaxSorts
    /\ os' = [ os EXCEPT !.pc = "idle" ]
    /\ UNCHANGED <<drs, ffx, lb, main>>

DRS_ReuseNext ==
    \/ \E data \in ReuseData(drs) : DRS_Sort(data)
    \/ DRS_CopyInfo
    \/ \E wgid \in Cells(CeilDiv(MaxKeys, PART_SIZE)) : DRS_ReduceWG(wgid)
    \/ DRS_Scan
    \/ \E wgid \in Cells(CeilDiv(MaxKeys, PART_SIZE)) : DRS_DvrWG(wgid)
    \/ DRS_EndPass
    \/ DRS_Readback
    \/ DRS_Again

FFX_ReuseNext ==
    \/ \E data \in ReuseData(ffx) : FFX_Sort(data)
    \/ FFX_CopyConstants
    \/ \E groupID \in Cells(MAX_THREADGROUPS) : FFX_DispatchCount(groupID)
    \/ FFX_DispatchReduce
    \/ FFX_DispatchScan
    \/ FFX_DispatchScanAdd
    \/ \E groupID \in Cells(MAX_THREADGROUPS) : FFX_DispatchScatter(groupID)
    \/ FFX_EndPass
    \/ FFX_Readback
    \/ FFX_Again

OS_ReuseNext ==
    \/ \E data \in ReuseData(os) : OS_Sort(data)
    \/ OS_CopyInfo
    \/ \E wgid \in Cells(CeilDiv(MaxKeys, OS_REDUCE_PART_SIZE)) : OS_GlobalHistWG(wgid)
    \/ OS_Scan
    \/ \E wgid \in Cells(CeilDiv(MaxKeys, OS_PART_SIZE)) : OS_PassWG(wgid)
    \/ OS_EndPass
    \/ OS_Readback
    \/ OS_Again

\* OneSweep called repeatedly.
SpecOSReuse == OS_Init /\ [][OS_ReuseNext]_vars

\* One of the three engines per behaviour, called repeatedly.
SpecReuse ==
    /\ DRS_Init \/ FFX_Init \/ OS_Init
    /\ [][DRS_ReuseNext \/ FFX_ReuseNext \/ OS_ReuseNext]_vars

----------------------------------------------------------------------------
(* Properties of DeviceRadixSort.                                          *)

\* The number of positions of sequence s that hold x.
Occurrences(s, x) == Cardinality({ i \in 1 .. Len(s) : s[i] = x })

\* s and t hold the same elements with the same multiplicities.
SameBag(s, t) ==
    /\ Len(s) = Len(t)
    /\ \A i \in 1 .. Len(s) : Occurrences(s, s[i]) = Occurrences(t, s[i])

KeysOf(s) == [ i \in 1 .. Len(s) |-> s[i].key ]

NonDecreasing(s) == \A i \in 1 .. Len(s) - 1 : s[i].key <= s[i + 1].key

\* Every pipeline runs at one of the two supported widths (source: 16 or 32).
DrsWidthsSupported ==
    \A x \in { drs.w.reduce, drs.w.scan, drs.w.dvr } :
        x \in { MIN_SUBGROUP_SIZE, 2 * MIN_SUBGROUP_SIZE }

DrsFinished == drs.pc \in { "returned", "threw" }

C2_DrsPairingPreserved ==
    drs.pc = "returned" => SameBag(drs.result[1].sorted, drs.data)

\* The step is the run of a workgroup of the current dispatch.
DrsWorkgroupRan == drs'.pending # drs.pending /\ drs'.pc = drs.pc

\* The sort and histogram buffers are left as they were.
DrsBuffersKept ==
    /\ drs'.mem = drs.mem
    /\ drs'.hist = drs.hist
    /\ drs'.pass_hist = drs.pass_hist

\* Some workgroup of the sort rejects its width: the scan dispatch always has
\* workgroups, the other two have them when the input is not empty.
DrsSomeKernelRejects ==
    \/ WidthRejected(drs.w.scan, BLOCK_DIM)
    \/ /\ Len(drs.data) > 0
       /\ \/ WidthRejected(drs.w.reduce, REDUCE_BLOCK_DIM)
          \/ CapacityExceeded(drs.w.dvr)

\* What C8 requires of one step of the command buffer.
C8_Step ==
    /\ (drs.pc = "reduce" /\ DrsWorkgroupRan
          /\ WidthRejected(drs.w.reduce, REDUCE_BLOCK_DIM))
        => (drs'.status[STATUS_ERR_REDUCE] = ERR_REDUCE_CODE /\ DrsBuffersKept)
    /\ (drs.pc = "reduce" /\ drs'.pc = "dvr" /\ WidthRejected(drs.w.scan, BLOCK_DIM))
        => (drs'.status[STATUS_ERR_SCAN] = ERR_SCAN_CODE /\ DrsBuffersKept)
    /\ (drs.pc = "dvr" /\ DrsWorkgroupRan /\ CapacityExceeded(drs.w.dvr))
        => (drs'.status[STATUS_ERR_DVR] = ERR_DVR_CODE /\ DrsBuffersKept)

\* C8: a reduce_hist or scan workgroup that observes a width below
\* MIN_SUBGROUP_SIZE or not dividing its workgroup size, and a dvr_pass
\* workgroup whose per-subgroup histograms exceed WARP_HIST_CAPACITY, writes
\* its sentinel code and leaves the histogram and sort buffers untouched, and
\* a sort in which a kernel rejects never returns an array.
C8_DrsMismatchAborts ==
    /\ [][C8_Step]_vars
    /\ [](DrsFinished /\ DrsSomeKernelRejects => drs.pc = "threw")

\* C8 witness: a sort of a non-empty input was rejected because of the
\* capacity check of dvr_pass alone.
C8_Witness ==
    /\ drs.pc = "threw"
    /\ Len(drs.data) > 0
    /\ CapacityExceeded(drs.w.dvr)
    /\ drs.status[STATUS_ERR_DVR] = ERR_DVR_CODE
    /\ drs.status[STATUS_ERR_REDUCE] = 0
    /\ drs.status[STATUS_ERR_SCAN] = 0

\* The host has read back the status of a finished chain.
HostFinished(e) == e.pc \in { "threw", "returned" }

\* What C10 requires of one step: the host decides only after the chain has
\* completed, and without submitting again.
C10_Step ==
    /\ (~HostFinished(drs) /\ HostFinished(drs'))
          => drs.pc = "done" /\ drs'.submits = drs.submits
    /\ (~HostFinished(os) /\ HostFinished(os'))
          => os.pc = "done" /\ os'.submits = os.submits

\* C10: after the full dispatch chain of a DeviceRadixSort or OneSweep sort
\* the host reads error slots 0..2 of the status register; if any slot is
\* non-zero sort() throws and returns no sorted array, not even a partial
\* one; the chain is submitted exactly once per sort() call.
C10_HostChecksStatus ==
    /\ [][C10_Step]_vars
    /\ [](\A e \in { drs, os } :
            /\ e.pc \notin { "off", "idle" } => e.submits = 1
            /\ HostFinished(e) =>
                  /\ e.pc = "threw" <=> \E i \in Cells(STATUS_ERROR_COUNT) : e.status[i] # 0
                  /\ e.pc = "threw" => e.result = << >>
                  /\ e.pc = "returned" => Len(e.result) = 1)

\* A OneSweep sort threw on the sentinel of its scan kernel alone, after one
\* submission and without a result.
C10_Witness ==
    /\ os.pc = "threw"
    /\ Len(os.data) > 0
    /\ os.status[0] = 0 /\ os.status[1] = OS_ERR_SCAN /\ os.status[2] = 0
    /\ os.submits = 1
    /\ os.result = << >>

----------------------------------------------------------------------------
(* Properties of FidelityFXSort.                                           *)

\* C3: FidelityFXSort.sort returns, for every input including inputs that
\* contain the all-ones key, the keys in non-decreasing order and exactly
\* the input multiset of (key, payload) pairs.  The scatter kernel skips
\* every key equal to the padding value (part_000 lines 172 and 198), so
\* the statement fails for an input holding that key.
C3_FfxSortCorrect ==
    (ffx.pc = "returned" /\ FfxWidthsSupported) =>
        /\ NonDecreasing(ffx.result[1].sorted)
        /\ SameBag(ffx.result[1].sorted, ffx.data)

\* C9: no sort() returns a result computed at a subgroup width below the one
\* its kernels were sized for.  The FidelityFX kernels have no width check
\* and the engine has no status register, so its sort() returns at every
\* width.
C9_NoResultAtUnsupportedWidth ==
    ffx.pc = "returned" => FfxWidthsSupported

----------------------------------------------------------------------------
(* Decoupled lookback of one OneSweep pass.                                *)
(*                                                                         *)
(* The kernel (shaders/onesweep/OneSweep.wgsl) is not part of the source   *)
(* tree; the protocol below follows section 4.3 of the specification, and  *)
(* the initial contents of pass_hist follow OneSweep.sort (lines 195-205). *)
(* Slot s of pass_hist is the status cell read first by partition s: slot  *)
(* 0 is seeded by the host, partition p publishes into slot p + 1 and      *)
(* walks back from slot p, so the cell in slot s belongs to partition      *)
(* s - 1.  Each digit has its own chain of cells and its own walks, which  *)
(* share nothing with those of another digit; lb is the chain of one       *)
(* digit, with any local counts:                                           *)
(*   cell[s]    the packed status cell (count << 2 | flag)                 *)
(*   local[p]   the local count of the digit in partition p                *)
(*   walk[p]    the walk of partition p: st (start, look, resolved,        *)
(*              done), k (the slot to read next), acc (the exclusive       *)
(*              prefix so far)                                             *)

\* Partitions of the pass.
LB_Partitions == 3

\* Local counts of a partition: none, one, and the whole partition.
LB_Counts == { 0, 1, OS_PART_SIZE }

\* A partition that starts its walk at its own cell.
LB_FirstSlot_Own(p) == p + 1

\* The slot partition p reads first: the cell of partition p - 1.
LB_FirstSlot(p) == p

\* A partition that publishes INCLUSIVE_READY while still walking.
LB_CanPublishInclusive_Early(st) == st \in { "look", "resolved" }

\* A partition publishes INCLUSIVE_READY once its walk has terminated.
LB_CanPublishInclusive(st) == st = "resolved"

\* An atomic load; a load outside the buffer yields zero.
LB_Load(cell, s) == IF s \in DOMAIN cell THEN cell[s] ELSE 0

\* Partition p publishes its local count as AGGREGATE_READY and starts its
\* walk.
LB_PublishAggregate(p) ==
    /\ lb.pc = "lookback"
    /\ lb.walk[p].st = "start"
    /\ lb' = [ lb EXCEPT
          !.cell[p + 1] = LB_Pack(lb.local[p], FLAG_AGGREGATE),
          !.walk[p] = [ st |-> "look", k |-> LB_FirstSlot(p), acc |-> 0 ] ]
    /\ UNCHANGED <<drs, ffx, os, main>>

\* One read of the walk: INCLUSIVE_READY adds the value and stops,
\* AGGREGATE_READY adds the value and moves one slot back, NOT_READY leaves
\* the walk where it is, to read the same slot again.
LB_Look(p) ==
    /\ lb.pc = "lookback"
    /\ lb.walk[p].st = "look"
    /\ LET w == lb.walk[p]
           c == LB_Load(lb.cell, w.k)
           sum == (w.acc + LB_Count(c)) % 2^COUNT_BITS
       IN  lb' = [ lb EXCEPT !.walk[p] =
                     IF LB_Flag(c) = FLAG_INCLUSIVE
                     THEN [ w EXCEPT !.acc = sum, !.st = "resolved" ]
                     ELSE IF LB_Flag(c) = FLAG_AGGREGATE
                     THEN [ w EXCEPT !.acc = sum, !.k = w.k - 1 ]
                     ELSE w ]
    /\ UNCHANGED <<drs, ffx, os, main>>

\* Partition p adds its own local count and publishes the sum as
\* INCLUSIVE_READY; acc is its global base for the scatter.
LB_PublishInclusive(p) ==
    /\ lb.pc = "lookback"
    /\ LB_CanPublishInclusive(lb.walk[p].st)
    /\ lb' = [ lb EXCEPT
          !.cell[p + 1] = LB_Pack(lb.walk[p].acc + lb.local[p], FLAG_INCLUSIVE),
          !.walk[p].st = "done" ]
    /\ UNCHANGED <<drs, ffx, os, main>>

\* A step of the thread of partition p that follows the digit.
LB_Step(p) ==
    \/ LB_PublishAggregate(p)
    \/ LB_Look(p)
    \/ LB_PublishInclusive(p)

LB_Next ==
    \/ \E p \in Cells(LB_Partitions) : LB_PublishAggregate(p)
    \/ \E p \in Cells(LB_Partitions) : LB_Look(p)
    \/ \E p \in Cells(LB_Partitions) : LB_PublishInclusive(p)

LB_Init ==
    /\ \E local \in [ Cells(LB_Partitions) -> LB_Counts ] :
          lb = [ pc |-> "lookback",
                 cell |-> [ s \in 0 .. LB_Partitions |-> passHistInit(s) ],
                 local |-> local,
                 walk |-> [ p \in Cells(LB_Partitions) |->
                              [ st |-> "start", k |-> LB_FirstSlot(p), acc |-> 0 ] ] ]
    /\ drs = Off /\ ffx = Off /\ os = Off /\ main = Off

SpecLB == LB_Init /\ [][LB_Next]_vars

\* The scheduler of the fairness hypothesis: a thread that can take a step
\* eventually takes one.
SpecLBFair ==
    /\ SpecLB
    /\ \A p \in Cells(LB_Partitions) : WF_vars(LB_Step(p))

----------------------------------------------------------------------------
(* The whole development: one engine, or one lookback pass, per behaviour. *)

Init == DRS_Init \/ FFX_Init \/ LB_Init \/ OS_Init

Next == DRS_Next \/ FFX_Next \/ LB_Next \/ OS_Next

Spec == Init /\ [][Next]_vars

----------------------------------------------------------------------------
(* Properties of the decoupled lookback.                                   *)

\* The sum of the local counts of the digit over the partitions 0 .. p.
LB_Prefix(p) == SumFn(lb.local, 0, p)

LB_AllDone == \A p \in Cells(LB_Partitions) : lb.walk[p].st = "done"

\* Partition p is waiting: the cell it reads next is NOT_READY.
LB_Waiting(p) ==
    lb.walk[p].st = "look" /\ LB_Flag(LB_Load(lb.cell, lb.walk[p].k)) = FLAG_NOT_READY

\* C4: when the walk of partition p for digit d has terminated, the
\* exclusive prefix it accumulated is the sum of the local counts of d over
\* all partitions q < p, and the value it then publishes as INCLUSIVE_READY
\* is that sum plus its own local count - under every interleaving.
C4_LookbackPrefix ==
    \A p \in Cells(LB_Partitions) :
        /\ lb.walk[p].st \in { "resolved", "done" } => lb.walk[p].acc = LB_Prefix(p - 1)
        /\ lb.walk[p].st = "done" =>
              lb.cell[p + 1] = LB_Pack(LB_Prefix(p - 1) + lb.local[p], FLAG_INCLUSIVE)

\* The last partition finished a walk that passed over an AGGREGATE_READY
\* cell (its predecessor has not resolved yet) and accumulated a non-zero
\* prefix.
C4_Witness ==
    LET p == LB_Partitions - 1
    IN  /\ lb.walk[p].st = "done"
        /\ lb.walk[p].acc > 0
        /\ lb.local[p] > 0
        /\ LB_Flag(lb.cell[p]) = FLAG_AGGREGATE

\* C5: under the fair scheduler every wait on a NOT_READY cell ends, every
\* partition publishes INCLUSIVE_READY for every digit and the pass
\* completes; a partition waits only on cells of lower-indexed partitions.
C5_LookbackTerminates ==
    /\ <>[]( /\ LB_AllDone
             /\ \A s \in 0 .. LB_Partitions : LB_Flag(lb.cell[s]) = FLAG_INCLUSIVE )
    /\ \A p \in Cells(LB_Partitions) :
          [](LB_Waiting(p) => ( /\ lb.walk[p].k \in 1 .. p
                                /\ <>(~LB_Waiting(p)) ))

\* The last partition has walked past the aggregates of its predecessors and
\* waits on the cell of partition 0, which has not published yet.
C5_Witness ==
    LET p == LB_Partitions - 1
    IN  /\ LB_Waiting(p)
        /\ lb.walk[p].k = 1
        /\ lb.walk[p].acc > 0
        /\ lb.walk[0].st = "start"

\* What C6 requires of one step: no flag decreases, and a flag becomes
\* INCLUSIVE_READY only by the publication of a partition whose walk has
\* terminated.
C6_Step ==
    /\ \A s \in 0 .. LB_Partitions : LB_Flag(lb.cell[s])' >= LB_Flag(lb.cell[s])
    /\ \A p \in Cells(LB_Partitions) :
          ( /\ LB_Flag(lb.cell[p + 1]) # FLAG_INCLUSIVE
            /\ LB_Flag(lb.cell[p + 1])' = FLAG_INCLUSIVE )
          => lb.walk[p].st = "resolved"

\* C6: a status cell only moves forward NOT_READY -> AGGREGATE_READY ->
\* INCLUSIVE_READY, and a partition publishes INCLUSIVE_READY for a digit
\* only after its own walk over the lower-indexed partitions has
\* terminated.
C6_CellsMonotone ==
    /\ [][C6_Step]_vars
    /\ [](\A p \in Cells(LB_Partitions) :
            LB_Flag(lb.cell[p + 1]) = FLAG_INCLUSIVE => lb.walk[p].st = "done")

\* The cells of three partitions are in the three states at once, the
\* INCLUSIVE_READY one belonging to a partition with predecessors.
C6_Witness ==
    \E p, q, r \in Cells(LB_Partitions) :
        /\ p > 0
        /\ LB_Flag(lb.cell[p + 1]) = FLAG_INCLUSIVE
        /\ LB_Flag(lb.cell[q + 1]) = FLAG_AGGREGATE
        /\ LB_Flag(lb.cell[r + 1]) = FLAG_NOT_READY

\* What C7 requires of one step: a walk advances only over a cell whose
\* flag is AGGREGATE_READY or INCLUSIVE_READY, adding its count.
C7_Step ==
    \A p \in Cells(LB_Partitions) :
        ( /\ lb.walk[p].st = "look"
          /\ \/ lb.walk[p].acc' # lb.walk[p].acc
             \/ lb.walk[p].k' # lb.walk[p].k
             \/ lb.walk[p].st' # lb.walk[p].st )
        => /\ LB_Flag(LB_Load(lb.cell, lb.walk[p].k)) \in { FLAG_AGGREGATE, FLAG_INCLUSIVE }
           /\ lb.walk[p].acc' = lb.walk[p].acc + LB_Count(LB_Load(lb.cell, lb.walk[p].k))

\* C7: partition p reads only cells of partitions with index < p, adds the
\* value of a cell only when its flag is AGGREGATE_READY or INCLUSIVE_READY,
\* and every INCLUSIVE_READY cell holds the sum of the local counts of all
\* partitions up to and including the cell's partition.
C7_LookbackReads ==
    /\ [][C7_Step]_vars
    /\ [](\A p \in Cells(LB_Partitions) :
            lb.walk[p].st = "look" => lb.walk[p].k \in 0 .. p)
    /\ [](\A s \in 0 .. LB_Partitions :
            LB_Flag(lb.cell[s]) = FLAG_INCLUSIVE => LB_Count(lb.cell[s]) = LB_Prefix(s - 1))

\* A partition is about to read the INCLUSIVE_READY cell of a predecessor
\* that is itself not partition 0, with a non-zero count in it.
C7_Witness ==
    \E p \in Cells(LB_Partitions) :
        /\ lb.walk[p].st = "look"
        /\ lb.walk[p].k >= 2
        /\ LB_Flag(lb.cell[lb.walk[p].k]) = FLAG_INCLUSIVE
        /\ LB_Count(lb.cell[lb.walk[p].k]) > 0

----------------------------------------------------------------------------
(* Properties of the pass orchestration of the three engines.              *)

\* One of the three engines per behaviour.
SpecEngines ==
    /\ DRS_Init \/ FFX_Init \/ OS_Init
    /\ [][DRS_Next \/ FFX_Next \/ OS_Next]_vars

\* The index of the ping-pong buffer that pass p of FidelityFX and of
\* OneSweep has to read, and the one it has to write.
SourceOfPass(p) == p % 2

DestOfPass(p) == 1 - (p % 2)

\* What C11 requires of one step of a submitted sort: only the buffers bound
\* as destination of the pass being executed change.
C11_Step ==
    /\ drs.pc \in { "copy", "reduce", "dvr" } =>
          \A b \in BufIds :
              b \notin { drs.binds[drs.pass].alt, drs.binds[drs.pass].alt_payload }
                 => drs'.mem[b] = drs.mem[b]
    /\ ffx.pc \in { "copy", "count", "scan", "scanAdd", "scatter" } =>
          /\ ffx'.keysBuffers[SourceOfPass(ffx.pass)] = ffx.keysBuffers[SourceOfPass(ffx.pass)]
          /\ ffx'.valuesBuffers[SourceOfPass(ffx.pass)]
                = ffx.valuesBuffers[SourceOfPass(ffx.pass)]
    /\ os.pc \in { "copy", "hist", "sweep" } =>
          /\ os'.keys[SourceOfPass(os.pass)] = os.keys[SourceOfPass(os.pass)]
          /\ os'.values[SourceOfPass(os.pass)] = os.values[SourceOfPass(os.pass)]

\* The bind groups of DeviceRadixSort: source and destination differ in every
\* pass and swap from one pass to the next.
C11_DrsBinds ==
    /\ \A p \in Cells(SORT_PASSES) :
          /\ drs.binds[p].sort # drs.binds[p].alt
          /\ drs.binds[p].payload # drs.binds[p].alt_payload
          /\ { drs.binds[p].sort, drs.binds[p].alt }
                \cap { drs.binds[p].payload, drs.binds[p].alt_payload } = {}
    /\ \A p \in Cells(SORT_PASSES - 1) :
          /\ drs.binds[p + 1].sort = drs.binds[p].alt
          /\ drs.binds[p + 1].alt = drs.binds[p].sort
          /\ drs.binds[p + 1].payload = drs.binds[p].alt_payload
          /\ drs.binds[p + 1].alt_payload = drs.binds[p].payload

\* The first n cells of the key buffer k and of the payload buffer v hold the
\* records of s.
HoldsRecords(k, v, s) ==
    \A i \in 1 .. Len(s) : k[i - 1] = s[i].key /\ v[i - 1] = s[i].value

\* C11: in every pass of every engine the buffer bound as scatter
\* destination is a different buffer from the one bound as source, for keys
\* and for payloads (a pass changes no buffer but its destination), the two
\* roles alternate from one pass to the next, pass 0 reads the buffer the
\* input was uploaded to, and the buffer downloaded as the result is the one
\* the final pass wrote.
C11_PingPong ==
    /\ [][C11_Step]_vars
    /\ [](drs.pc \notin { "off", "idle" } =>
            /\ C11_DrsBinds
            /\ (drs.pc = "copy" /\ drs.pass = 0) =>
                  HoldsRecords(drs.mem[drs.binds[0].sort],
                               drs.mem[drs.binds[0].payload], drs.data)
            /\ drs.pc = "returned" =>
                  HoldsRecords(drs.mem[drs.binds[SORT_PASSES - 1].alt],
                               drs.mem[drs.binds[SORT_PASSES - 1].alt_payload],
                               drs.result[1].sorted))
    /\ [](/\ (ffx.pc = "copy" /\ ffx.pass = 0) =>
                HoldsRecords(ffx.keysBuffers[SourceOfPass(0)],
                             ffx.valuesBuffers[SourceOfPass(0)], ffx.data)
          /\ ffx.pc = "returned" =>
                HoldsRecords(ffx.keysBuffers[DestOfPass(TOTAL_PASSES - 1)],
                             ffx.valuesBuffers[DestOfPass(TOTAL_PASSES - 1)],
                             ffx.result[1].sorted))
    /\ [](/\ (os.pc = "copy" /\ os.pass = 0) =>
                HoldsRecords(os.keys[SourceOfPass(0)], os.values[SourceOfPass(0)], os.data)
          /\ os.pc = "returned" =>
                HoldsRecords(os.keys[DestOfPass(OS_SORT_PASSES - 1)],
                             os.values[DestOfPass(OS_SORT_PASSES - 1)],
                             os.result[1].sorted))

\* Pass 1 of a FidelityFX sort of two thread groups is half scattered: the
\* buffer that was the destination of pass 0 is being read, and the two key
\* buffers differ.
C11_Witness ==
    /\ ffx.pc = "scatter"
    /\ ffx.pass = 1
    /\ Cardinality(ffx.pending) = 1
    /\ ffx.constants.numThreadGroups = 2
    /\ ffx.keysBuffers[0] # ffx.keysBuffers[1]

\* The region of pass_hist of pass p in a sort of tb partitions.
OS_Region(p, tb) == { x \in Cells(tb * RADIX * OS_SORT_PASSES) : x \div (tb * RADIX) = p }

\* C12: at the start of every OneSweep.sort call, before any kernel of that
\* sort runs, in the region of pass_hist of each of the 4 passes (offset
\* pass * threadBlocks * RADIX, threadBlocks * RADIX cells) the first RADIX
\* cells hold INCLUSIVE_READY with value 0 and every other cell holds
\* NOT_READY, whatever an earlier sort of any size left in the buffer.  (A
\* sort of no record has empty regions.)
C12_PassHistSeeded ==
    (os.pc = "copy" /\ os.pass = 0) =>
        LET tb == os.infoUpload[0].thread_blocks
        IN  \A p \in Cells(OS_SORT_PASSES) :
                \A x \in OS_Region(p, tb) :
                    os.pass_hist[x] =
                        IF x - p * tb * RADIX < RADIX
                        THEN LB_Pack(0, FLAG_INCLUSIVE)
                        ELSE LB_Pack(0, FLAG_NOT_READY)

\* A second sort, of one partition, is about to start on a buffer in which a
\* sort of three partitions published its counts: the cells of the new
\* regions are reset, cells beyond them still hold what the first sort
\* left.
C12_Witness ==
    /\ os.pc = "copy" /\ os.pass = 0
    /\ os.submits = 2
    /\ Len(os.data) = 1
    /\ \E x \in DOMAIN os.pass_hist :
          /\ x >= RADIX * OS_SORT_PASSES
          /\ LB_Flag(os.pass_hist[x]) = FLAG_INCLUSIVE
          /\ LB_Count(os.pass_hist[x]) > 0

----------------------------------------------------------------------------
(* Scratch state across calls.                                             *)

\* buf with every cell outside fresh replaced by another value: what a
\* kernel computes from buf and from Scrambled(buf, fresh) is the same
\* exactly when it depends on no cell outside fresh.
Scrambled(buf, fresh) ==
    [ x \in DOMAIN buf |-> IF x \in fresh THEN buf[x] ELSE Wrap(buf[x] + 1) ]

\* The cells of pass_hist of DeviceRadixSort written in the current call:
\* the columns of the reduce_hist workgroups that have run (the host writes
\* none of them).
DrsFreshPassHist ==
    IF WidthRejected(drs.w.reduce, REDUCE_BLOCK_DIM) THEN {}
    ELSE { x \in Cells(drs.info.thread_blocks * RADIX) :
             drs.pc # "reduce" \/ (x % drs.info.thread_blocks) \notin drs.pending }

\* The kernel of DeviceRadixSort that runs next computes the same from
\* pass_hist whatever the cells hold that were not written in this call.
\* (hist and status are zeroed by the host in every call.)
DrsReadsFresh ==
    LET stale == Scrambled(drs.pass_hist, DrsFreshPassHist)
        b == drs.binds[drs.pass]
    IN  /\ (drs.pc = "reduce" /\ drs.pending = {}
              /\ ~WidthRejected(drs.w.scan, BLOCK_DIM)) =>
              \A x \in Cells(drs.info.thread_blocks * RADIX) :
                  ScanDispatch(drs.pass_hist, drs.info, drs.w.scan)[x]
                     = ScanDispatch(stale, drs.info, drs.w.scan)[x]
        /\ (drs.pc = "dvr" /\ ~CapacityExceeded(drs.w.dvr)) =>
              \A wgid \in drs.pending :
                  DvrPassWG(drs.mem[b.sort], drs.mem[b.alt], drs.hist,
                            drs.pass_hist, drs.info, wgid, drs.w.dvr)
                     = DvrPassWG(drs.mem[b.sort], drs.mem[b.alt], drs.hist,
                                 stale, drs.info, wgid, drs.w.dvr)

\* The same for FidelityFX, whose host clears nothing: the cells written in
\* the current pass are those of the thread groups of the pass.
FfxReadsFresh ==
    LET c == ffx.constants
        sums == Cells(SORT_BIN_COUNT * c.numThreadGroups)
        scans == Cells(c.numScanValues)
        staleSums == Scrambled(ffx.sumTable, sums)
    IN  /\ (ffx.pc = "count" /\ ffx.pending = {}) =>
              \A g \in scans :
                  FFX_ReduceWG(ffx.sumTable, c, g, ffx.w.reduce)
                     = FFX_ReduceWG(staleSums, c, g, ffx.w.reduce)
        /\ ffx.pc = "scan" =>
              \A x \in scans :
                  FFX_ScanGroups(ffx.reduceTable, ffx.scanScratch, c, ffx.w.scan, 0)[x]
                     = FFX_ScanGroups(Scrambled(ffx.reduceTable, scans),
                                      Scrambled(ffx.scanScratch, {}), c, ffx.w.scan, 0)[x]
        /\ ffx.pc = "scanAdd" =>
              \A x \in sums :
                  FFX_ScanAddGroups(ffx.sumTable, ffx.scanScratch, c, ffx.w.scanAdd, 0)[x]
                     = FFX_ScanAddGroups(staleSums, Scrambled(ffx.scanScratch, scans),
                                         c, ffx.w.scanAdd, 0)[x]
        /\ ffx.pc = "scatter" =>
              \A g \in ffx.pending :
                  LET dest == [ keys |-> ffx.keysBuffers[DestOfPass(ffx.pass)],
                                values |-> ffx.valuesBuffers[DestOfPass(ffx.pass)] ]
                  IN  FFX_ScatterWG(ffx.keysBuffers[SourceOfPass(ffx.pass)],
                                    ffx.valuesBuffers[SourceOfPass(ffx.pass)], dest,
                                    ffx.sumTable, c, g)
                         = FFX_ScatterWG(ffx.keysBuffers[SourceOfPass(ffx.pass)],
                                         ffx.valuesBuffers[SourceOfPass(ffx.pass)], dest,
                                         staleSums, c, g)

\* OneSweep: while the passes run, every status cell of the regions of the
\* current and of the later passes holds what the host wrote in this call,
\* or was published by a partition of the current pass that has run; the
\* status register holds zero or a sentinel of this call.
OsCellsFresh ==
    os.pc \in { "copy", "hist", "sweep" } =>
        LET tb == os.infoUpload[0].thread_blocks
        IN  \A p \in os.pass .. OS_SORT_PASSES - 1 :
                \A x \in OS_Region(p, tb) :
                    LET slot == (x - p * tb * RADIX) \div RADIX
                    IN  \/ os.pass_hist[x] = passHistInit(slot)
                        \/ /\ p = os.pass /\ os.pc = "sweep"
                           /\ slot - 1 \notin os.pending
                           /\ LB_Flag(os.pass_hist[x]) = FLAG_INCLUSIVE

----------------------------------------------------------------------------
(* Properties of the order of the kernels (C14).                           *)

\* The keys of src at the indices lo .. hi below size whose digit at shift
\* is d.
DigitCount(src, size, shift, d, lo, hi) ==
    Cardinality({ i \in lo .. hi : i < size /\ Digit(src[i], shift) = d })

\* The stages of a pass in the order of the command buffer; the last stage
\* is followed by the first of the next pass, or by the end of the work.
DrsOrder == { <<"idle", "copy">>, <<"copy", "reduce">>, <<"reduce", "dvr">>,
              <<"dvr", "copy">>, <<"dvr", "done">>,
              <<"done", "returned">>, <<"done", "threw">> }

FfxOrder == { <<"idle", "copy">>, <<"copy", "count">>, <<"count", "scan">>,
              <<"scan", "scanAdd">>, <<"scanAdd", "scatter">>,
              <<"scatter", "copy">>, <<"scatter", "done">>,
              <<"done", "returned">> }

OsOrder == { <<"idle", "copy">>, <<"copy", "hist">>, <<"hist", "sweep">>,
             <<"sweep", "copy">>, <<"sweep", "done">>,
             <<"done", "returned">>, <<"done", "threw">> }

\* One engine e steps to e2: the stage changes along order only, a stage
\* with workgroups is left only when none is still to run, the pass number
\* advances by one and only out of the scatter stage sc, and the offsets the
\* scatter reads (same) are not written while it runs.
OrderStep(e, e2, order, wgStages, sc, same) ==
    e.pc # "off" =>
        /\ e2.pc # e.pc => <<e.pc, e2.pc>> \in order
        /\ (e2.pc # e.pc /\ e.pc \in wgStages) => e.pending = {}
        /\ e2.pass # e.pass =>
              \/ e.pc = sc /\ e.pending = {} /\ e2.pass = e.pass + 1 /\ e2.pc = "copy"
              \/ e.pc = "idle" /\ e2.pass = 0
        /\ (e.pc = sc /\ e2.pc = sc) => same

C14_Step ==
    /\ OrderStep(drs, drs', DrsOrder, { "reduce", "dvr" }, "dvr",
                 drs.pc = "off" \/ (drs'.pass_hist = drs.pass_hist /\ drs'.hist = drs.hist))
    /\ OrderStep(ffx, ffx', FfxOrder, { "count", "scatter" }, "scatter",
                 ffx.pc = "off" \/ ffx'.sumTable = ffx.sumTable)
    /\ OrderStep(os, os', OsOrder, { "hist", "sweep" }, "sweep", TRUE)

\* When the scan of DeviceRadixSort starts, the histogram of the pass is
\* complete: pass_hist holds the digit counts of every partition and hist
\* the exclusive prefix over the digits of the whole array.
DrsHistComplete ==
    (drs.pc = "reduce" /\ drs.pending = {}
       /\ ~WidthRejected(drs.w.reduce, REDUCE_BLOCK_DIM)) =>
        LET src == drs.mem[drs.binds[drs.pass].sort]
            tb == drs.info.thread_blocks
            n == drs.info.size
            sh == drs.info.shift
        IN  /\ \A p \in Cells(tb) : \A d \in Cells(RADIX) :
                  drs.pass_hist[d * tb + p]
                     = DigitCount(src, n, sh, d, p * PART_SIZE, (p + 1) * PART_SIZE - 1)
            /\ \A d \in Cells(RADIX) :
                  drs.hist[drs.pass * RADIX + d]
                     = SumFn([ e \in Cells(RADIX) |-> DigitCount(src, n, sh, e, 0, n - 1) ],
                             0, d - 1)

\* When the reduce kernel of FidelityFX starts, the count is complete:
\* sumTable holds the bin counts of every thread group.
FfxCountComplete ==
    (ffx.pc = "count" /\ ffx.pending = {}) =>
        LET c == ffx.constants
            src == ffx.keysBuffers[SourceOfPass(ffx.pass)]
        IN  \A g \in Cells(c.numThreadGroups) : \A d \in Cells(SORT_BIN_COUNT) :
                LET blk == FFX_Blocks(c, g)
                IN  ffx.sumTable[d * c.numThreadGroups + g]
                       = Cardinality({ i \in blk.start ..
                                              blk.start + blk.count * FFX_BlockSize - 1 :
                                         i < c.numKeys /\ FFX_Bin(src[i], c.shift) = d })

\* C14: within each pass the kernels run in the order histogram, scan,
\* scatter (count, reduce, scan, scan-add, scatter for FidelityFX), each
\* starting only when every workgroup of the previous one has finished, and
\* the first kernel of the next pass only after the scatter of the pass; a
\* scan reads a complete histogram and the offsets a scatter reads are not
\* written while it runs.
C14_KernelOrder ==
    /\ [][C14_Step]_vars
    /\ [](DrsHistComplete /\ FfxCountComplete)

\* The scan of the second pass of DeviceRadixSort is about to start on the
\* complete histogram of three partitions.
C14_Witness ==
    /\ drs.pc = "reduce" /\ drs.pending = {} /\ drs.pass = 1
    /\ drs.info.thread_blocks = 3
    /\ DrsWidthsSupported
    /\ \E x \in Cells(3 * RADIX) : drs.pass_hist[x] > 1

----------------------------------------------------------------------------
(* Properties of the digits of the passes (C15).                           *)

\* The passes whose digit, of the given width at the given shifts, holds
\* bit b of a key.
PassesOfBit(shifts, bits, b) ==
    { p \in DOMAIN shifts : shifts[p] <= b /\ b < shifts[p] + bits }

\* The shifts of the passes are 0, bits, 2 * bits, ..., and every bit of a
\* key is in the digit of exactly one pass.
CoversKey(shifts, bits) ==
    /\ \A p \in DOMAIN shifts : shifts[p] = p * bits /\ shifts[p] + bits <= KEY_BITS
    /\ \A b \in 0 .. KEY_BITS - 1 : Cardinality(PassesOfBit(shifts, bits, b)) = 1

\* The keys of dst lie in the bins the histogram laid out: the key at index
\* x has the digit d whose region, from offset[d] to offset[d + 1], holds x.
InBinsOf(dst, n, shift, bins, offset) ==
    \A x \in Cells(n) :
        LET d == (dst[x] \div 2^shift) % bins
        IN  offset[d] <= x /\ (d = bins - 1 \/ x < offset[d + 1])

\* The uploaded shifts of the engines that have been given an input, and the
\* shift the kernels of the current pass see.
C15_Shifts ==
    /\ (drs.pc \notin { "off", "idle" } \/ (drs.pc = "idle" /\ drs.submits > 0)) =>
          CoversKey([ p \in Cells(SORT_PASSES) |-> drs.infoUpload[p].shift ], RADIX_LOG)
    /\ drs.pc \in { "reduce", "dvr" } => drs.info.shift = drs.pass * RADIX_LOG
    /\ (ffx.pc \notin { "off", "idle" } \/ (ffx.pc = "idle" /\ ffx.submits > 0)) =>
          CoversKey([ p \in Cells(TOTAL_PASSES) |-> ffx.constantsUpload[p].shift ],
                    SORT_BITS_PER_PASS)
    /\ ffx.pc \in { "count", "scan", "scanAdd", "scatter" } =>
          ffx.constants.shift = ffx.pass * SORT_BITS_PER_PASS
    /\ (os.pc \notin { "off", "idle" } \/ (os.pc = "idle" /\ os.submits > 0)) =>
          CoversKey([ p \in Cells(OS_SORT_PASSES) |-> os.infoUpload[p].shift ], RADIX_LOG)
    /\ os.pc \in { "hist", "sweep" } => os.info.shift = os.pass * RADIX_LOG

\* When the scatter of a pass has finished, every key of the destination is
\* in the bin of the digit the histogram kernel counted for it.  (The
\* scatter of FidelityFX writes no key equal to KEY_MAX, which the count
\* kernel counts in the last bin: with such a key in the source the bins
\* below the last are compared.)
C15_DigitsAgree ==
    /\ (drs.pc = "dvr" /\ drs.pending = {} /\ DrsWidthsSupported) =>
          InBinsOf(drs.mem[drs.binds[drs.pass].alt], drs.info.size, drs.info.shift,
                   RADIX, [ d \in Cells(RADIX) |-> drs.hist[drs.pass * RADIX + d] ])
    /\ (ffx.pc = "scatter" /\ ffx.pending = {} /\ FfxWidthsSupported) =>
          LET c == ffx.constants
              offset == [ d \in Cells(SORT_BIN_COUNT) |-> ffx.sumTable[d * c.numThreadGroups] ]
              src == ffx.keysBuffers[SourceOfPass(ffx.pass)]
              upto == IF \E i \in Cells(c.numKeys) : src[i] = KEY_MAX
                      THEN offset[SORT_BIN_COUNT - 1] ELSE c.numKeys
          IN  c.numKeys > 0 =>
                InBinsOf(ffx.keysBuffers[DestOfPass(ffx.pass)], upto, c.shift,
                         SORT_BIN_COUNT, offset)

\* C15: passes run least-significant digit first and cover the key exactly:
\* pass p uses shift p * B, the digits of the passes partition the key bits
\* without gap or overlap, and the digit the scatter kernel computes for a
\* key equals the digit the histogram kernel counted for it.
C15_DigitsCoverKey == C15_Shifts /\ C15_DigitsAgree

\* The scatter of the last pass of DeviceRadixSort has finished on three
\* partitions of keys that differ in their top digit.
C15_Witness ==
    /\ drs.pc = "dvr" /\ drs.pending = {} /\ drs.pass = SORT_PASSES - 1
    /\ drs.info.thread_blocks = 3
    /\ DrsWidthsSupported
    /\ \E i, j \in 1 .. Len(drs.data) :
          Digit(drs.data[i].key, drs.info.shift) # Digit(drs.data[j].key, drs.info.shift)

----------------------------------------------------------------------------
(* runSortingTest in mode 'all' (main.js 496-560): the JavaScript sort and *)
(* the three engines, created on one device, sort the same data in turn;   *)
(* displayResults compares every pair of results.                          *)

RECURSIVE JsInsert(_, _)
\* r inserted behind the records of the sorted s whose key is not greater.
JsInsert(s, r) ==
    IF s = << >> THEN << r >>
    ELSE IF s[Len(s)].key - r.key <= 0 THEN Append(s, r)
    ELSE Append(JsInsert(SubSeq(s, 1, Len(s) - 1), r), s[Len(s)])

RECURSIVE JsSort(_)
\* jsCopy.sort((a, b) => a.key - b.key): a stable sort by key.
JsSort(data) ==
    IF data = << >> THEN << >>
    ELSE JsInsert(JsSort(SubSeq(data, 1, Len(data) - 1)), data[Len(data)])

\* A comparison that also looks at the payloads.
compareArrays_WithValues(arr1, arr2) ==
    IF Len(arr1) # Len(arr2)
    THEN [ match |-> FALSE,
           differences |-> IF Len(arr1) > Len(arr2) THEN Len(arr1) - Len(arr2)
                           ELSE Len(arr2) - Len(arr1) ]
    ELSE LET differences == Cardinality({ i \in 1 .. Len(arr1) : arr1[i] # arr2[i] })
         IN  [ match |-> differences = 0, differences |-> differences ]

\* compareArrays (main.js 779-797).
compareArrays(arr1, arr2) ==
    IF Len(arr1) # Len(arr2)
    THEN [ match |-> FALSE,
           differences |-> IF Len(arr1) > Len(arr2) THEN Len(arr1) - Len(arr2)
                           ELSE Len(arr2) - Len(arr1) ]
    ELSE LET differences == Cardinality({ i \in 1 .. Len(arr1) :
                                            arr1[i].key # arr2[i].key })
         IN  [ match |-> differences = 0, differences |-> differences ]

\* The three engines on one device: every pipeline runs at the subgroup
\* width of the device.
Compare_Init ==
    /\ \E w \in Widths : \E oob \in OobTargets : \E stores \in BOOLEAN :
          /\ drs = DRS_Created([ reduce |-> w, scan |-> w, dvr |-> w, oob |-> oob ])
          /\ ffx = FFX_Created([ reduce |-> w, scan |-> w, scanAdd |-> w ])
          /\ os = OS_Created([ globalHist |-> w, scan |-> w, pass |-> w,
                               stores |-> stores ])
    /\ lb = Off /\ main = Off

\* The engines are awaited one after the other on the same data; an engine
\* that throws ends the test.
Compare_Next ==
    \/ \E data \in Inputs : FFX_Sort(data)
    \/ FFX_CopyConstants
    \/ \E groupID \in Cells(MAX_THREADGROUPS) : FFX_DispatchCount(groupID)
    \/ FFX_DispatchReduce
    \/ FFX_DispatchScan
    \/ FFX_DispatchScanAdd
    \/ \E groupID \in Cells(MAX_THREADGROUPS) : FFX_DispatchScatter(groupID)
    \/ FFX_EndPass
    \/ FFX_Readback
    \/ ffx.pc = "returned" /\ DRS_Sort(ffx.data)
    \/ DRS_CopyInfo
    \/ \E wgid \in Cells(CeilDiv(MaxKeys, PART_SIZE)) : DRS_ReduceWG(wgid)
    \/ DRS_Scan
    \/ \E wgid \in Cells(CeilDiv(MaxKeys, PART_SIZE)) : DRS_DvrWG(wgid)
    \/ DRS_EndPass
    \/ DRS_Readback
    \/ drs.pc = "returned" /\ OS_Sort(drs.data)
    \/ OS_CopyInfo
    \/ \E wgid \in Cells(CeilDiv(MaxKeys, OS_REDUCE_PART_SIZE)) : OS_GlobalHistWG(wgid)
    \/ OS_Scan
    \/ \E wgid \in Cells(CeilDiv(MaxKeys, OS_PART_SIZE)) : OS_PassWG(wgid)
    \/ OS_EndPass
    \/ OS_Readback

SpecCompare == Compare_Init /\ [][Compare_Next]_vars

\* results of runSortingTest once every engine has returned.
Compare_Results ==
    [ javascript |-> JsSort(ffx.data),
      fidelityfx |-> ffx.result[1].sorted,
      deviceradix |-> drs.result[1].sorted,
      onesweep |-> os.result[1].sorted ]

\* C16: for the same input, the key sequences returned by FidelityFXSort,
\* DeviceRadixSort, OneSweep and the JavaScript sort are element-wise
\* identical: compareArrays reports a match for every pair of results.
C16_EnginesAgree ==
    os.pc = "returned" =>
        \A a, b \in DOMAIN Compare_Results :
            compareArrays(Compare_Results[a], Compare_Results[b]).match

----------------------------------------------------------------------------
(* Properties of repeated sorts (C17).                                     *)

\* Engine e has returned: an input with non-decreasing keys is returned
\* unchanged.
SortedStays(e) ==
    (e.pc = "returned" /\ NonDecreasing(e.data)) => e.result[1].sorted = e.data

\* Engine e returns (as e2) from a call that was given the records its
\* previous call returned: it returns them again.
ResortStep(e, e2) ==
    (e.pc = "done" /\ e2.pc = "returned" /\ e.result # << >>
       /\ e.data = e.result[1].sorted) =>
        e2.result[1].sorted = e.data

\* C17: for each engine, sorting an array whose keys are already
\* non-decreasing returns the same sequence of (key, payload) records, and
\* sorting the output of a sort a second time returns that output.
C17_ResortIdempotent ==
    /\ [](SortedStays(drs) /\ SortedStays(ffx) /\ SortedStays(os))
    /\ [][ResortStep(drs, drs') /\ ResortStep(ffx, ffx') /\ ResortStep(os, os')]_vars

----------------------------------------------------------------------------
(* Properties of the boundary sizes (C18).                                 *)

\* Engine e, called with no record and computing partitions partitions,
\* dispatches no workgroup in the stages wgStages, does not throw and
\* returns the empty array.
EmptyInput(e, partitions, wgStages) ==
    (e.pc \notin { "off", "idle" } /\ Len(e.data) = 0) =>
        /\ partitions = 0
        /\ e.pc \in wgStages => e.pending = {}
        /\ e.pc # "threw"
        /\ e.pc = "returned" => e.result[1].sorted = << >>

\* Engine e, called with one record, returns it.
SingleInput(e) ==
    (e.pc = "returned" /\ Len(e.data) = 1) => e.result[1].sorted = e.data

\* C18: for N = 0 every engine computes zero partitions, dispatches no
\* histogram or scatter workgroup, raises no error and returns an empty
\* array; for N = 1 it returns the single input record unchanged.
C18_BoundarySizes ==
    /\ EmptyInput(drs, IF drs.pc = "off" THEN 0 ELSE drs.infoUpload[0].thread_blocks,
                  { "reduce", "dvr" })
    /\ EmptyInput(ffx, IF ffx.pc = "off" THEN 0
                       ELSE ffx.constantsUpload[0].numThreadGroups,
                  { "count", "scatter" })
    /\ EmptyInput(os, IF os.pc = "off" THEN 0 ELSE os.infoUpload[0].thread_blocks,
                  { "hist", "sweep" })
    /\ SingleInput(drs) /\ SingleInput(ffx) /\ SingleInput(os)

----------------------------------------------------------------------------
(* Properties of the partial final partition of DeviceRadixSort (C19).     *)

\* What workgroup wgid of dvr_pass holds before its stores to alt: the keys
\* it loaded, their ranks in the tile, the sorted tile and the offsets of
\* the digits (lines 334-416).
DV_Tile(src, hist, pass_hist, info, wgid, w) ==
    LET keys == DV_Keys(src, info, wgid, w)
        zero == [ x \in 0 .. WARP_HIST_CAPACITY - 1 |-> 0 ]
        rank == DV_Rank(keys, info.shift, w, 0, <<>>, zero)
        sub == DV_SubgroupPrefix(rank.hist, w)
        dig == DV_DigitPrefix(DV_Total(rank.hist, w), w)
        off == DV_Offsets(keys, info.shift, w, rank.offsets, sub, dig)
    IN  [ keys |-> keys, off |-> off,
          sorted |-> DV_Sorted(keys, off, sub),
          localHist |-> DV_LocalHist(hist, pass_hist, info, wgid, dig) ]

\* The source index of key k of thread t of workgroup wgid (lines 334-352).
DV_Index(wgid, t, k, w) ==
    LaneOf(t, w) + (t \div w) * w * KEYS_PER_THREAD + wgid * PART_SIZE + k * w

\* The source indices of partition wgid below size.
RealIndices(info, wgid) ==
    { j \in wgid * PART_SIZE .. (wgid + 1) * PART_SIZE - 1 : j < info.size }

\* The partition wgid of the dvr_pass dispatch of the current pass.
PartitionExact(wgid) ==
    LET info == drs.info
        w == drs.w.dvr
        src == drs.mem[drs.binds[drs.pass].sort]
        tile == DV_Tile(src, drs.hist, drs.pass_hist, info, wgid, w)
        written == DV_Written(info, wgid)
        real == RealIndices(info, wgid)
    IN  \* as many keys are written as the partition has keys below size,
        /\ Cardinality(written) = Cardinality(real)
        \* the written keys are the keys read from those indices,
        /\ \A v \in { src[j] : j \in real } \cup { tile.sorted[i] : i \in written } :
              Cardinality({ i \in written : tile.sorted[i] = v })
                 = Cardinality({ j \in real : src[j] = v })
        \* and the padding loaded for the indices >= size is ranked behind
        \* them and is not written.
        /\ \A t \in Threads : \A k \in 0 .. KEYS_PER_THREAD - 1 :
              IF DV_Index(wgid, t, k, w) < info.size
              THEN tile.off[t][k] \in written
              ELSE /\ tile.keys[t][k] = KEY_MAX
                   /\ tile.off[t][k] \notin written
                   /\ \A i \in written : i < tile.off[t][k]

\* The indices of alt the workgroups of the dispatch store to.
DestIndices ==
    LET info == drs.info
        src == drs.mem[drs.binds[drs.pass].sort]
        tile(wgid) == DV_Tile(src, drs.hist, drs.pass_hist, info, wgid, drs.w.dvr)
    IN  [ wgid \in Cells(info.thread_blocks) |->
            [ i \in DV_Written(info, wgid) |->
                DV_Dest(tile(wgid).sorted, tile(wgid).localHist, info.shift, i) ] ]

\* C19: in every pass and for every N >= 1 the partition count is
\* ceil(N / PART_SIZE), the destination indices written by dvr_pass are
\* exactly 0 .. N - 1, each written once, every written key was read from a
\* source index below N, and the padding loaded for the indices >= N is
\* ranked after all real keys of the partition and never written.
C19_PartialPartition ==
    (drs.pc = "dvr" /\ DrsWidthsSupported /\ drs.info.size >= 1) =>
        LET n == drs.info.size
            tb == drs.info.thread_blocks
            stores == { <<wgid, i>> \in Cells(tb) \X Cells(PART_SIZE) :
                          i \in DV_Written(drs.info, wgid) }
        IN  /\ tb = (n + PART_SIZE - 1) \div PART_SIZE
            /\ Cardinality(stores) = n
            /\ { DestIndices[st[1]][st[2]] : st \in stores } = Cells(n)
            /\ \A wgid \in Cells(tb) : PartitionExact(wgid)

\* The dvr_pass of the last pass runs on two partitions and one key: the
\* last partition holds one key and PART_SIZE - 1 words of padding.
C19_Witness ==
    /\ drs.pc = "dvr" /\ drs.pass = SORT_PASSES - 1 /\ DrsWidthsSupported
    /\ drs.info.size = 2 * PART_SIZE + 1
    /\ drs.pending = { 2 }

----------------------------------------------------------------------------
(* The scan stage on many partitions.  The scan kernels work on blocks of  *)
(* SCAN_PART_SIZE partitions (DeviceRadixSort) and of FFX_BlockSize thread *)
(* groups (FidelityFX); engines created for more keys than MaxKeys reach   *)
(* partition counts beyond one block (source: more than 2048 partitions of *)
(* 3840 keys; 800 thread groups against blocks of 512).  The states below  *)
(* are those of such engines when the histogram stage of a pass has        *)
(* completed; the scan stage then runs as in the engines above.            *)

\* Partition counts of DeviceRadixSort: up to two scan blocks and one.
ManyPartitions == { 1, 3, SCAN_PART_SIZE, SCAN_PART_SIZE + 1, 2 * SCAN_PART_SIZE + 1 }

\* MAX_THREADGROUPS at the scale of the block: source 800 against a block of
\* 512, one block and a half.
MANY_THREADGROUPS == FFX_BlockSize + FFX_BlockSize \div 2

\* Block counts of FidelityFX: up to MANY_THREADGROUPS thread groups, and
\* one with an additional block.
ManyBlocks == { 1, 2, FFX_BlockSize, FFX_BlockSize + 1, MANY_THREADGROUPS,
                MANY_THREADGROUPS + 1 }

\* Number of generated key buffers per size.
ManySeeds == 3

\* A buffer of n generated keys.
ManyKeys(n, seed) == [ i \in Cells(n) |-> LongKey(i + 1, seed) ]

RECURSIVE ReduceHistAll(_, _, _, _, _, _)
\* The reduce_hist dispatch: the workgroups wgid, wgid + 1, ... (their
\* atomicAdd's to hist commute, each writes its own column of pass_hist).
ReduceHistAll(src, hist, pass_hist, info, w, wgid) ==
    IF wgid >= info.thread_blocks THEN [ hist |-> hist, pass_hist |-> pass_hist ]
    ELSE LET r == ReduceHistWG(src, hist, pass_hist, info, wgid, w)
         IN  ReduceHistAll(src, r.hist, r.pass_hist, info, w, wgid + 1)

\* DeviceRadixSort on tb partitions, the last of one key, when the
\* reduce_hist dispatch of pass pass has completed.
Many_DrsReduced(w, tb, seed, pass) ==
    LET n == (tb - 1) * PART_SIZE + 1
        keys == ManyKeys(n, seed)
        info == [ size |-> n, shift |-> ShiftOfPass(pass, RADIX_LOG),
                  thread_blocks |-> tb ]
        r == ReduceHistAll(keys, Zeros(RADIX * SORT_PASSES),
                           Zeros(tb * RADIX * SORT_PASSES), info, w, 0)
    IN  [ DRS_Created([ reduce |-> w, scan |-> w, dvr |-> w, oob |-> -1 ]) EXCEPT
            !.mem = [ b \in BufIds |-> keys ],
            !.hist = r.hist, !.pass_hist = r.pass_hist,
            !.info = info, !.pass = pass, !.submits = 1, !.pc = "reduce" ]

RECURSIVE FFX_CountAll(_, _, _, _)
\* The count dispatch: the thread groups groupID, groupID + 1, ...
FFX_CountAll(sourceKeys, sumTable, c, groupID) ==
    IF groupID >= c.numThreadGroups THEN sumTable
    ELSE FFX_CountAll(sourceKeys, Tab(FFX_CountWG(sourceKeys, sumTable, c, groupID)),
                      c, groupID + 1)

\* FidelityFX on numBlocks blocks, the last of one key, when the count
\* dispatch of pass pass has completed.
Many_FfxCounted(w, numBlocks, seed, pass) ==
    LET n == (numBlocks - 1) * FFX_BlockSize + 1
        keys == ManyKeys(n, seed)
        c == calculateConstantsFor(n, ShiftOfPass(pass, SORT_BITS_PER_PASS),
                                   MANY_THREADGROUPS)
        numReducedBlocks == CeilDiv(numBlocks, FFX_BlockSize)
    IN  [ FFX_Created([ reduce |-> w, scan |-> w, scanAdd |-> w ]) EXCEPT
            !.keysBuffers = [ b \in 0 .. 1 |-> keys ],
            !.sumTable = FFX_CountAll(keys, Zeros(SORT_BIN_COUNT * numBlocks), c, 0),
            !.reduceTable = Zeros(SORT_BIN_COUNT * numReducedBlocks),
            !.scanScratch = Zeros(SORT_BIN_COUNT * numReducedBlocks),
            !.constants = c, !.pass = pass, !.submits = 1, !.pc = "count" ]

Many_Init ==
    \E w \in { MIN_SUBGROUP_SIZE, 2 * MIN_SUBGROUP_SIZE } :
    \E seed \in 1 .. ManySeeds : \E pass \in { 0, 1 } :
        /\ lb = Off /\ main = Off /\ os = Off
        /\ \/ \E tb \in ManyPartitions :
                 drs = Many_DrsReduced(w, tb, seed, pass) /\ ffx = Off
           \/ \E numBlocks \in ManyBlocks :
                 ffx = Many_FfxCounted(w, numBlocks, seed, pass) /\ drs = Off

\* The scan stage of the two engines.
Many_Next ==
    \/ DRS_Scan
    \/ FFX_DispatchReduce
    \/ FFX_DispatchScan
    \/ FFX_DispatchScanAdd

SpecManyPartitions == Many_Init /\ [][Many_Next]_vars

----------------------------------------------------------------------------
(* Properties of the two-level scan (C20).                                 *)

\* The keys of src below size with digit d at the indices lo .. hi, for a
\* digit of bins values.
BinCount(src, size, shift, bins, d, lo, hi) ==
    Cardinality({ i \in lo .. hi : i < size /\ (src[i] \div 2^shift) % bins = d })

\* The number of keys with a digit below d in the whole array, plus the
\* number of keys with digit d below index start (the first index of a
\* partition).
ExpectedBase(src, size, shift, bins, d, start) ==
    SumFn([ e \in Cells(bins) |-> BinCount(src, size, shift, bins, e, 0, size - 1) ],
          0, d - 1)
      + BinCount(src, size, shift, bins, d, 0, start - 1)

\* dvr_pass lines 407-411: the base offset of digit d in partition p.
DrsBase(d, p) ==
    drs.hist[d + drs.info.shift * HIST_STRIDE]
      + (IF p # 0 THEN drs.pass_hist[p + drs.info.thread_blocks * d - 1] ELSE 0)

\* After the scan of DeviceRadixSort, while the scatter runs.
DrsScanResult ==
    (drs.pc = "dvr" /\ DrsWidthsSupported) =>
        \A d \in Cells(RADIX) : \A p \in Cells(drs.info.thread_blocks) :
            DrsBase(d, p)
               = ExpectedBase(drs.mem[drs.binds[drs.pass].sort], drs.info.size,
                              drs.info.shift, RADIX, d, p * PART_SIZE)

\* After reduce, scan and scan-add of FidelityFX, while the scatter runs.
FfxScanResult ==
    (ffx.pc = "scatter" /\ FfxWidthsSupported) =>
        LET c == ffx.constants
        IN  \A d \in Cells(SORT_BIN_COUNT) : \A g \in Cells(c.numThreadGroups) :
                ffx.sumTable[d * c.numThreadGroups + g]
                   = ExpectedBase(ffx.keysBuffers[SourceOfPass(ffx.pass)], c.numKeys,
                                  c.shift, SORT_BIN_COUNT, d, FFX_Blocks(c, g).start)

\* C20: after the scan stage of a pass, the base offset the scatter kernel
\* uses for digit d in partition p equals the number of keys in the whole
\* array with a digit below d plus the number of keys with digit d in the
\* partitions before p, for every partition count, including counts larger
\* than one scan block.
C20_ScanResult == DrsScanResult /\ FfxScanResult

\* The scan of DeviceRadixSort has run on two scan blocks and one partition.
C20_Witness ==
    /\ drs.pc = "dvr" /\ DrsWidthsSupported
    /\ drs.info.thread_blocks = 2 * SCAN_PART_SIZE + 1
    /\ DrsBase(RADIX - 1, 2 * SCAN_PART_SIZE) > 2 * SCAN_PART_SIZE

----------------------------------------------------------------------------
(* Properties of the histogram kernels (C21).                              *)

\* The entries of the histogram table of DeviceRadixSort when the
\* reduce_hist dispatch of a pass has completed: entry (p, d) is
\* pass_hist[d * thread_blocks + p].
DrsHistogram ==
    (drs.pc = "reduce" /\ drs.pending = {}
       /\ ~WidthRejected(drs.w.reduce, REDUCE_BLOCK_DIM)) =>
        LET src == drs.mem[drs.binds[drs.pass].sort]
            tb == drs.info.thread_blocks
            n == drs.info.size
            entry == [ x \in Cells(tb * RADIX) |-> drs.pass_hist[x] ]
        IN  /\ \A p \in Cells(tb) : \A d \in Cells(RADIX) :
                  entry[d * tb + p]
                     = BinCount(src, n, drs.info.shift, RADIX, d,
                                p * REDUCE_PART_SIZE, (p + 1) * REDUCE_PART_SIZE - 1)
            /\ SumFn(entry, 0, tb * RADIX - 1) = n

\* The entries of sumTable when the count dispatch of a pass of FidelityFX
\* has completed: entry (g, d) is sumTable[d * numThreadGroups + g].
FfxHistogram ==
    (ffx.pc = "count" /\ ffx.pending = {}) =>
        LET c == ffx.constants
            src == ffx.keysBuffers[SourceOfPass(ffx.pass)]
            entry == [ x \in Cells(SORT_BIN_COUNT * c.numThreadGroups) |-> ffx.sumTable[x] ]
        IN  /\ \A g \in Cells(c.numThreadGroups) : \A d \in Cells(SORT_BIN_COUNT) :
                  LET blk == FFX_Blocks(c, g)
                  IN  entry[d * c.numThreadGroups + g]
                         = BinCount(src, c.numKeys, c.shift, SORT_BIN_COUNT, d, blk.start,
                                    blk.start + blk.count * FFX_BlockSize - 1)
            /\ SumFn(entry, 0, SORT_BIN_COUNT * c.numThreadGroups - 1) = c.numKeys

\* C21: after the histogram kernel of a pass (reduce_hist, FidelityFX
\* count), for every partition p and digit d the table entry for (p, d)
\* equals the number of keys at indices below N inside the range of
\* partition p whose digit at the shift of the pass is d, and the entries
\* of one pass sum to N.
C21_HistogramContract == DrsHistogram /\ FfxHistogram

\* The count dispatch of the last pass of FidelityFX has completed on two
\* thread groups, the second with an additional, partial block.
C21_Witness ==
    /\ ffx.pc = "count" /\ ffx.pending = {} /\ ffx.pass = TOTAL_PASSES - 1
    /\ ffx.constants.numThreadGroups = 2
    /\ ffx.constants.numThreadGroupsWithAdditionalBlocks = 1
    /\ ffx.constants.numKeys % FFX_BlockSize = 1

----------------------------------------------------------------------------
(* Properties of the group-shared histograms of DeviceRadixSort (C22).     *)

\* Lines 112-141: the slots of wg_globalHist that thread t of reduce_hist
\* workgroup wgid adds to, at subgroup width w.
RH_Slots(src, info, wgid, t, w) ==
    { Digit(src[i], info.shift) + (t \div w) * RADIX : i \in RH_Loads(info, wgid, t) }

\* Line 300: the slots of wg_warpHist that thread t of a dvr_pass workgroup
\* adds to.
DV_Slots(keys, shift, t, w) ==
    { Digit(keys[t][k], shift) + (t \div w) * RADIX : k \in 0 .. KEYS_PER_THREAD - 1 }

\* A histogram of threads threads at width w: the slot of digit d of
\* thread t is inside the sub-histograms in use, and those are inside the
\* array of capacity words.
SlotsFit(threads, w, capacity) ==
    /\ (threads \div w) * RADIX <= capacity
    /\ \A t \in 0 .. threads - 1 : \A d \in Cells(RADIX) :
          (t \div w) * RADIX + d < capacity

\* The workgroups of the running dispatch address their histogram inside
\* the sub-histograms of the runtime width.
C22_Running ==
    /\ (drs.pc = "reduce" /\ ~WidthRejected(drs.w.reduce, REDUCE_BLOCK_DIM)) =>
          \A wgid \in drs.pending : \A t \in 0 .. REDUCE_BLOCK_DIM - 1 :
              \A x \in RH_Slots(drs.mem[drs.binds[drs.pass].sort], drs.info, wgid, t,
                                drs.w.reduce) :
                  x < (REDUCE_BLOCK_DIM \div drs.w.reduce) * RADIX /\ x < REDUCE_HIST_SIZE
    /\ (drs.pc = "dvr" /\ ~CapacityExceeded(drs.w.dvr)) =>
          \A wgid \in drs.pending : \A t \in Threads :
              \A x \in DV_Slots(DV_Keys(drs.mem[drs.binds[drs.pass].sort], drs.info,
                                        wgid, drs.w.dvr),
                                drs.info.shift, t, drs.w.dvr) :
                  x < (BLOCK_DIM \div drs.w.dvr) * RADIX /\ x < WARP_HIST_CAPACITY

\* C22: for every runtime subgroup width at which a DeviceRadixSort kernel
\* raises no error, the group-shared histogram is addressed with the
\* runtime width and every index sid * RADIX + digit is below the compiled
\* capacity (REDUCE_HIST_SIZE in reduce_hist, WARP_HIST_CAPACITY in
\* dvr_pass).
C22_SharedHistFits ==
    /\ C22_Running
    /\ drs.pc # "off" =>
          \A w \in 1 .. 2 * BLOCK_DIM :
              /\ ~WidthRejected(w, REDUCE_BLOCK_DIM) =>
                    SlotsFit(REDUCE_BLOCK_DIM, w, REDUCE_HIST_SIZE)
              /\ ~CapacityExceeded(w) => SlotsFit(BLOCK_DIM, w, WARP_HIST_CAPACITY)

\* reduce_hist runs at the minimum width on a full partition whose keys
\* have the highest digit: the last slot of the array is addressed.
C22_Witness ==
    /\ drs.pc = "reduce" /\ drs.w.reduce = MIN_SUBGROUP_SIZE
    /\ \E wgid \in drs.pending : \E t \in 0 .. REDUCE_BLOCK_DIM - 1 :
          REDUCE_HIST_SIZE - 1
             \in RH_Slots(drs.mem[drs.binds[drs.pass].sort], drs.info, wgid, t,
                          drs.w.reduce)

----------------------------------------------------------------------------
(* Properties of the GPU timing of the three engines (C23).                *)

\* One engine per behaviour, called repeatedly, on a device with or without
\* the timestamp-query feature whose pipelines all run at one width.
Timing_Init ==
    \E w \in Widths, timed \in BOOLEAN :
        LET dev(e) == IF timed THEN e ELSE Untimed(e)
        IN  \/ /\ \E oob \in OobTargets :
                    drs = dev(DRS_Created([ reduce |-> w, scan |-> w, dvr |-> w,
                                            oob |-> oob ]))
               /\ ffx = Off /\ lb = Off /\ main = Off /\ os = Off
            \/ /\ ffx = dev(FFX_Created([ reduce |-> w, scan |-> w, scanAdd |-> w ]))
               /\ drs = Off /\ lb = Off /\ main = Off /\ os = Off
            \/ /\ \E stores \in BOOLEAN :
                    os = dev(OS_Created([ globalHist |-> w, scan |-> w, pass |-> w,
                                          stores |-> stores ]))
               /\ drs = Off /\ ffx = Off /\ lb = Off /\ main = Off

SpecTiming ==
    /\ Timing_Init
    /\ [][DRS_ReuseNext \/ FFX_ReuseNext \/ OS_ReuseNext]_vars

\* What the two words of the read buffer hold when both timestamps were
\* written by submission `call`.
TimesOfCall(call, passes) ==
    [ i \in Cells(2) |-> IF i = 0 THEN Timestamp(call, 0, 0, passes)
                         ELSE Timestamp(call, passes - 1, 1, passes) ]

\* The step in which sort() of engine e maps the read buffer and returns or
\* throws: the submitted command buffer has run to its end, the read buffer
\* holds the two timestamps of this call, and the returned gpuTime is their
\* difference (0 without the feature).
TimingStep(e, e2, passes) ==
    (e.pc # "off" /\ e2.pc \in { "returned", "threw" } /\ e2.pc # e.pc) =>
        /\ e.pc = "done" /\ e.pass = passes - 1 /\ e.pending = {}
        /\ e.submits > 0
        /\ e.timingSupported => e.readBuffer = TimesOfCall(e.submits, passes)
        /\ e2.pc = "returned" =>
              e2.result[1].gpuTime =
                  IF e.timingSupported
                  THEN TimesOfCall(e.submits, passes)[1]
                         - TimesOfCall(e.submits, passes)[0]
                  ELSE 0

C23_Step ==
    /\ TimingStep(drs, drs', SORT_PASSES)
    /\ TimingStep(ffx, ffx', TOTAL_PASSES)
    /\ TimingStep(os, os', OS_SORT_PASSES)

\* C23: in every engine's sort(), the timestamp read buffer is mapped and
\* read only after the command buffer with all passes and the timestamp
\* resolve has been submitted and has completed, and gpuTime is the
\* difference of the begin and end timestamps written by that same call.
C23_TimingAfterCompletion == [][C23_Step]_vars

\* The second call of OneSweep's sort() on a device with timestamp queries
\* has returned a positive gpuTime.
C23_Witness ==
    /\ os.pc = "returned"
    /\ os.submits = MaxSorts
    /\ os.timingSupported
    /\ os.result[1].gpuTime > 0

----------------------------------------------------------------------------
(* Properties of the diagnostics of a returned result (C24).               *)

\* const { ..., name } = await engine.sort(data) in runSortingTest
\* (main.js 534, 545): the property of the returned object, if it has one.
HasField(r, name) == name \in DOMAIN r

\* The stages of a pass of DeviceRadixSort, by the index of their width
\* record in the status register.
DrsStages == { STATUS_STAGE_REDUCE, STATUS_STAGE_SCAN, STATUS_STAGE_DVR }

\* The width the device runs the pipeline of a stage at.
DrsStageWidth(stage) ==
    IF stage = STATUS_STAGE_REDUCE THEN drs.w.reduce
    ELSE IF stage = STATUS_STAGE_SCAN THEN drs.w.scan
    ELSE drs.w.dvr

\* C24: the object returned by sort() carries the diagnostics the harness
\* reads from it: for DeviceRadixSort a subgroupSizes list with the detected
\* width of every pass and stage, for OneSweep the detected width
\* (subgroupSize) and the shader variant that ran (shaderVariant).
C24_ResultCarriesDiagnostics ==
    /\ drs.pc = "returned" =>
          /\ HasField(drs.result[1], "subgroupSizes")
          /\ \A pass \in Cells(SORT_PASSES), stage \in DrsStages :
                \E i \in DOMAIN drs.result[1].subgroupSizes :
                    drs.result[1].subgroupSizes[i] =
                        [ pass |-> pass, stage |-> stage,
                          size |-> DrsStageWidth(stage) ]
    /\ os.pc = "returned" =>
          /\ HasField(os.result[1], "subgroupSize")
          /\ HasField(os.result[1], "shaderVariant")
          /\ os.result[1].subgroupSize = os.w.pass

----------------------------------------------------------------------------
(* Properties of the kernel variant OneSweep runs (C25).                   *)

\* init() (OneSweep.js 29-82): one shader module is created from the one
\* imported source and the three pipelines are created from it; nothing is
\* dispatched before sort().  The minimum width the module is compiled for
\* is the one its kernels check at entry.
OS_CompiledMinWidth == MIN_SUBGROUP_SIZE

\* The kernels of the sort() in progress or completed on engine os.
OS_SortRan == os.pc \notin { "off", "idle" }

\* C25: the kernel variant every sort() of OneSweep uses has a compiled
\* minimum width not greater than the subgroup width of the device.
C25_VariantFitsDevice ==
    OS_SortRan =>
        /\ OS_CompiledMinWidth <= os.w.globalHist
        /\ OS_CompiledMinWidth <= os.w.scan
        /\ OS_CompiledMinWidth <= os.w.pass

----------------------------------------------------------------------------
(* compareArrays as a function (C26).  main is the state of the page       *)
(* (main.js): the two arrays handed to compareArrays and what it returned. *)

\* Longest array compared.
MaxCompareLen == 2

\* Keys and payloads of the arrays compared.
CompareKeys == { 0, 1, KEY_MAX }

ComparePayloads == { 0, 1 }

CompareArraysOf ==
    UNION { [ 1 .. n -> [ key : CompareKeys, value : ComparePayloads ] ] :
            n \in 0 .. MaxCompareLen }

CompareArrays_Init ==
    /\ \E arr1 \in CompareArraysOf, arr2 \in CompareArraysOf :
          main = [ pc |-> "compare", arr1 |-> arr1, arr2 |-> arr2,
                   comparison |-> << >> ]
    /\ drs = Off /\ ffx = Off /\ lb = Off /\ os = Off

\* const comparison = compareArrays(arr1, arr2) (displayResults,
\* main.js 659).
Main_Compare ==
    /\ main.pc = "compare"
    /\ main' = [ main EXCEPT !.comparison = << compareArrays(main.arr1, main.arr2) >>,
                             !.pc = "compared" ]
    /\ UNCHANGED <<drs, ffx, lb, os>>

SpecCompareArrays == CompareArrays_Init /\ [][Main_Compare]_vars

\* The arrays have the same length and the same key at every index.
SameKeys(a, b) ==
    /\ Len(a) = Len(b)
    /\ \A i \in 1 .. Len(a) : a[i].key = b[i].key

\* C26: compareArrays(a, b) reports match = true exactly when a and b have
\* the same length and the same key at every index; payloads never
\* influence the result, match is true exactly when the reported difference
\* count is 0, and the result for (a, b) equals the result for (b, a).
C26_CompareArrays ==
    main.pc = "compared" =>
        LET r == main.comparison[1]
        IN  /\ r.match <=> SameKeys(main.arr1, main.arr2)
            /\ r.match <=> r.differences = 0
            /\ r = compareArrays(main.arr2, main.arr1)
            /\ \A a \in CompareArraysOf, b \in CompareArraysOf :
                  (SameKeys(a, main.arr1) /\ SameKeys(b, main.arr2)) =>
                      compareArrays(a, b) = r

\* Two arrays of the longest size with the same keys and different payloads
\* have been compared.
C26_Witness ==
    /\ main.pc = "compared"
    /\ Len(main.arr1) = MaxCompareLen
    /\ SameKeys(main.arr1, main.arr2)
    /\ main.arr1 # main.arr2
    /\ main.comparison[1].match

----------------------------------------------------------------------------
(* WLMS on one subgroup of 16, 32 or 64 lanes (C27).  The ballot word is   *)
(* BALLOT_BITS wide (source 32), so the widths are BALLOT_BITS / 2,        *)
(* BALLOT_BITS and 2 * BALLOT_BITS lanes.  drs holds the subgroup: its     *)
(* width, the digit of the key of every lane and the ranks WLMS returned.  *)

WideWidths == { BALLOT_BITS \div 2, BALLOT_BITS, 2 * BALLOT_BITS }

\* Digits of the keys of a subgroup: all bits clear, mixed, all bits set.
WideDigits == { 0, 1, RADIX - 1 }

\* WLMS (lines 283-305) on the first key of the lanes of one subgroup, with
\* wg_warpHist zeroed (lines 329-331): the value every lane returns.  At
\* these widths at most one lane per digit is its highest_rank_peer, so
\* pre_inc, the value atomicAdd returns, is the zero the cell held.
WLMS_Subgroup(dg, w) ==
    LET bits == [ l \in Cells(w) |->
                    Tab([ k \in 0 .. RADIX_LOG - 1 |-> DigitBit(dg[l], k) ]) ]
        eq == [ l \in Cells(w) |-> DV_EqMask(bits, l, w) ]
        out == [ l \in Cells(w) |-> DV_Out(eq[l], l, w) ]
        peer == [ l \in Cells(w) |-> DV_HighestRankPeer(eq[l], w) ]
        pre_inc == [ l \in Cells(w) |-> 0 ]
    IN  [ l \in Cells(w) |-> out[l] + pre_inc[peer[l]] ]

WLMS_Init ==
    /\ \E w \in WideWidths : \E dg \in [ Cells(w) -> WideDigits ] :
          drs = [ pc |-> "rank", lane_count |-> w, digits |-> dg, offsets |-> << >> ]
    /\ ffx = Off /\ lb = Off /\ os = Off /\ main = Off

\* offsets[0] = WLMS(keys[0], ...) in every lane of the subgroup.
DRS_WLMS ==
    /\ drs.pc = "rank"
    /\ drs' = [ drs EXCEPT !.offsets = << WLMS_Subgroup(drs.digits, drs.lane_count) >>,
                           !.pc = "ranked" ]
    /\ UNCHANGED <<ffx, lb, os, main>>

SpecWLMS == WLMS_Init /\ [][DRS_WLMS]_vars

\* The lower-numbered lanes of the subgroup whose key has the digit of the
\* key of lane l.
LowerPeers(dg, l) == { j \in DOMAIN dg : j < l /\ dg[j] = dg[l] }

\* C27: in dvr_pass's WLMS ranking, for every subgroup width from 16 to 64
\* lanes and every lane, the rank of a key within its subgroup is the
\* number of lower-numbered lanes of the subgroup holding a key with the
\* same digit, and no value is shifted by the width of a word or more when
\* the lane masks are built.
C27_WlmsRanks ==
    drs.pc = "ranked" =>
        \A l \in Cells(drs.lane_count) :
            /\ drs.offsets[1][l] = Cardinality(LowerPeers(drs.digits, l))
            /\ l < BALLOT_BITS
            /\ drs.lane_count # BALLOT_BITS => drs.lane_count < BALLOT_BITS

----------------------------------------------------------------------------
(* Properties of the scatter as a stable partition (C28).                  *)

\* The index a stable partition by digit gives the element at source index
\* i: behind the elements of lower digits and behind the elements of its
\* own digit at lower source indices.  dg maps a source index to its digit.
StableDest(dg, i) ==
    Cardinality({ j \in DOMAIN dg : dg[j] < dg[i] })
      + Cardinality({ j \in DOMAIN dg : j < i /\ dg[j] = dg[i] })

\* dvr_pass of the current pass has completed at accepted widths: every key
\* of the source is at its stable index in the destination.
DrsStableScatter ==
    (drs.pc = "dvr" /\ drs.pending = {} /\ DrsWidthsSupported) =>
        LET b == drs.binds[drs.pass]
            src == drs.mem[b.sort]
            dg == [ i \in Cells(drs.info.size) |-> Digit(src[i], drs.info.shift) ]
        IN  \A i \in Cells(drs.info.size) :
                drs.mem[b.alt][StableDest(dg, i)] = src[i]

\* The scatter of the current pass of FidelityFX has completed at supported
\* widths: every record of the source is at its stable index in the
\* destination.
FfxStableScatter ==
    (ffx.pc = "scatter" /\ ffx.pending = {} /\ FfxWidthsSupported) =>
        LET c == ffx.constants
            src == ffx.keysBuffers[FFX_Source]
            dg == [ i \in Cells(c.numKeys) |-> FFX_Bin(src[i], c.shift) ]
        IN  \A i \in Cells(c.numKeys) :
                /\ ffx.keysBuffers[FFX_Dest][StableDest(dg, i)] = src[i]
                /\ ffx.valuesBuffers[FFX_Dest][StableDest(dg, i)]
                      = ffx.valuesBuffers[FFX_Source][i]

\* C28: each scatter pass is a stable partition by the current digit: of any
\* two keys with the same digit, the one at the lower source index is
\* written to the lower destination index, within a partition and across
\* partitions, in dvr_pass of DeviceRadixSort and in the scatter of
\* FidelityFX.
C28_StableScatter == DrsStableScatter /\ FfxStableScatter

----------------------------------------------------------------------------
(* Properties of the result as a function of the input (C29).              *)

\* Every two calls of sort() on engine e that were given the same data and
\* have returned, returned the same array: the first on a newly created
\* engine, the later one on the buffers the earlier calls left.
SameDataSameResult(e) ==
    e.pc # "off" =>
        \A i, j \in DOMAIN e.returned :
            e.returned[i].data = e.returned[j].data =>
                e.returned[i].sorted = e.returned[j].sorted

\* C29: the array returned by an engine's sort(data) is a function of data
\* alone: calls with the same data on engines with different histories of
\* earlier calls return identical arrays.
C29_ResultFromDataAlone ==
    /\ SameDataSameResult(drs)
    /\ SameDataSameResult(ffx)
    /\ SameDataSameResult(os)

----------------------------------------------------------------------------
(* Properties of the status register across calls (C30).                   *)

\* The kernels of a DeviceRadixSort call on data leave a non-zero error
\* slot: a kernel that runs rejects its width, or a kernel that runs at an
\* accepted width stores its width record past the end of the register and
\* the device lands the store on an error slot.
DrsCallFails(e) ==
    LET tb == CeilDiv(Len(e.data), PART_SIZE)
    IN  \/ tb > 0 /\ WidthRejected(e.w.reduce, REDUCE_BLOCK_DIM)
        \/ WidthRejected(e.w.scan, BLOCK_DIM)
        \/ tb > 0 /\ CapacityExceeded(e.w.dvr)
        \/ /\ e.oob \in Cells(STATUS_ERROR_COUNT)
           /\ \/ tb > 0 /\ ~WidthRejected(e.w.reduce, REDUCE_BLOCK_DIM)
              \/ ~WidthRejected(e.w.scan, BLOCK_DIM)
              \/ tb > 0 /\ ~CapacityExceeded(e.w.dvr)

\* The same for OneSweep.
OsCallFails(e) ==
    \/ Len(e.data) > 0 /\ OS_Rejected(e.w.globalHist)
    \/ OS_Rejected(e.w.scan)
    \/ Len(e.data) > 0 /\ OS_Rejected(e.w.pass)

\* sort() begins on engine e (as e2): every word of the status register is
\* zero when the command buffer is submitted.
ClearsStatus(e, e2) ==
    (e.pc = "idle" /\ e2.pc = "copy") => \A i \in DOMAIN e2.status : e2.status[i] = 0

C30_Step == ClearsStatus(drs, drs') /\ ClearsStatus(os, os')

\* C30: a sort() that failed with a shader error leaves nothing behind that
\* makes a later sort() on the same engine fail: the status register is
\* zeroed at the start of every sort, so the error check of a call reports
\* only what the kernels of that call wrote.
C30_NoErrorLeftBehind ==
    /\ [][C30_Step]_vars
    /\ [](/\ HostFinished(drs) => (drs.pc = "threw" <=> DrsCallFails(drs))
          /\ HostFinished(os) => (os.pc = "threw" <=> OsCallFails(os)))

\* The second call of DeviceRadixSort's sort() has returned on an engine
\* whose first call threw.
C30_Witness ==
    /\ drs.pc = "returned"
    /\ drs.submits = MaxSorts
    /\ Len(drs.returned) = 1

----------------------------------------------------------------------------
(* Properties of the uniform block of a pass (C31).                        *)

\* new Uint32Array([numKeys, shift, threadBlocks, 0]) of pass p of a call
\* on data, for partitions of partSize keys.
InfoOfPass(data, p, partSize) ==
    [ size |-> Len(data), shift |-> p * RADIX_LOG,
      thread_blocks |-> CeilDiv(Len(data), partSize) ]

\* The kernels of the current pass of engine e are running.
KernelsRun(e) == e.pc \notin { "off", "idle", "copy", "done", "returned", "threw" }

\* While the command buffer of a call executes, slot p of the upload buffer
\* holds the block of pass p, and the kernels of pass p read that block.
BlocksInPlace ==
    /\ (drs.pc # "off" /\ drs.pc \notin { "idle", "returned", "threw" }) =>
          /\ \A p \in Cells(SORT_PASSES) :
                drs.infoUpload[p] = InfoOfPass(drs.data, p, PART_SIZE)
          /\ KernelsRun(drs) => drs.info = InfoOfPass(drs.data, drs.pass, PART_SIZE)
    /\ (ffx.pc # "off" /\ ffx.pc \notin { "idle", "returned", "threw" }) =>
          /\ \A p \in Cells(TOTAL_PASSES) :
                ffx.constantsUpload[p]
                   = calculateConstants(Len(ffx.data), p * SORT_BITS_PER_PASS)
          /\ KernelsRun(ffx) =>
                ffx.constants
                   = calculateConstants(Len(ffx.data), ffx.pass * SORT_BITS_PER_PASS)
    /\ (os.pc # "off" /\ os.pc \notin { "idle", "returned", "threw" }) =>
          /\ \A p \in Cells(OS_SORT_PASSES) :
                os.infoUpload[p] = InfoOfPass(os.data, p, OS_PART_SIZE)
          /\ KernelsRun(os) => os.info = InfoOfPass(os.data, os.pass, OS_PART_SIZE)

\* A step that changes the uniform block of engine e (block, block2 before
\* and after) is the copy command of the pass: no kernel of the previous
\* pass is still to run, and the kernels of the pass start after it.
CopyOrdered(e, e2, block, block2) ==
    (e.pc # "off" /\ block2 # block) =>
        /\ e.pc = "copy" /\ e.pending = {}
        /\ e2.pass = e.pass /\ KernelsRun(e2)

C31_Step ==
    /\ CopyOrdered(drs, drs', IF drs.pc = "off" THEN 0 ELSE drs.info,
                   IF drs.pc = "off" THEN 0 ELSE drs'.info)
    /\ CopyOrdered(ffx, ffx', IF ffx.pc = "off" THEN 0 ELSE ffx.constants,
                   IF ffx.pc = "off" THEN 0 ELSE ffx'.constants)
    /\ CopyOrdered(os, os', IF os.pc = "off" THEN 0 ELSE os.info,
                   IF os.pc = "off" THEN 0 ELSE os'.info)

\* C31: each kernel of pass p reads the uniform block computed for pass p:
\* the blocks of the passes are written into distinct slots of the upload
\* buffer before the command buffer executes, and the copy of slot p into
\* the uniform buffer comes after the last kernel of pass p-1 and before
\* the first kernel of pass p.
C31_UniformBlockOfPass == [][C31_Step]_vars /\ []BlocksInPlace

\* A workgroup of dvr_pass of the last pass is about to run on two
\* partitions and one key.
C31_Witness ==
    /\ drs.pc = "dvr" /\ drs.pending # {}
    /\ drs.pass = SORT_PASSES - 1
    /\ drs.info.thread_blocks = 3
    /\ drs.info.shift = (SORT_PASSES - 1) * RADIX_LOG

----------------------------------------------------------------------------
(* Properties of the buffer fields of DeviceRadixSort (C32).               *)

\* The physical buffers the four fields refer to after construction.
FieldsAsCreated ==
    [ sortBuffer |-> "k0", altBuffer |-> "k1",
      payloadBuffer |-> "p0", altPayloadBuffer |-> "p1" ]

\* The step is a call of DeviceRadixSort.sort up to its submit.
DrsCalled == drs.pc = "idle" /\ drs'.pc = "copy"

\* The step is the end of a call of DeviceRadixSort.sort: a return or a throw.
DrsCallEnds == drs.pc = "done" /\ drs'.pc \in { "returned", "threw" }

\* What C32 requires of one step.
C32_Step ==
    /\ DrsCalled =>
          /\ \A p \in Cells(SORT_PASSES) :
                drs'.binds[p].sort = FieldsAtPass(BufferFields(drs), p).sortBuffer
          /\ \A p \in Cells(SORT_PASSES - 1) :
                /\ drs'.binds[p + 1].sort = drs'.binds[p].alt
                /\ drs'.binds[p + 1].payload = drs'.binds[p].alt_payload
          /\ drs'.binds[0].sort = drs.sortBuffer
          /\ drs'.binds[0].payload = drs.payloadBuffer
          /\ HoldsRecords(drs'.mem[drs'.binds[0].sort],
                          drs'.mem[drs'.binds[0].payload], drs'.data)
          /\ BufferFields(drs') = BufferFields(drs)
    /\ DrsCallEnds => BufferFields(drs') = BufferFields(drs)
    /\ (drs.pc = "done" /\ drs'.pc = "returned") =>
          /\ drs.sortBuffer = drs.binds[SORT_PASSES - 1].alt
          /\ drs.payloadBuffer = drs.binds[SORT_PASSES - 1].alt_payload
          /\ HoldsRecords(drs.mem[drs.binds[SORT_PASSES - 1].alt],
                          drs.mem[drs.binds[SORT_PASSES - 1].alt_payload],
                          drs'.result[1].sorted)

\* C32: the fields sortBuffer/altBuffer and payloadBuffer/altPayloadBuffer of
\* DeviceRadixSort are swapped once per encoded pass; after every call of
\* sort, returned or thrown, each of the four fields refers to the physical
\* buffer it referred to before the call, so that the next call uploads its
\* input into the buffer its pass 0 reads, and the result is downloaded from
\* the buffer the last pass wrote.
C32_FieldsRestored ==
    /\ [][C32_Step]_vars
    /\ [](drs.pc # "off" => BufferFields(drs) = FieldsAsCreated)

\* The second call of one DeviceRadixSort object has returned a result of
\* several records.
C32_Witness ==
    /\ drs.pc = "returned"
    /\ drs.submits = MaxSorts
    /\ Len(drs.data) > 1
    /\ drs.binds[SORT_PASSES - 1].alt = drs.sortBuffer

----------------------------------------------------------------------------
(* The distribution of the blocks of FidelityFX over the thread groups     *)
(* (C33): calculateConstants, then the block range of every thread group   *)
(* of the count dispatch and of the scatter dispatch.                      *)

\* Key counts whose indices are values of an i32.
MaxRangeKeys == 2^(WORD_BITS - 1) - 1

\* MAX_THREADGROUPS below and above the block size.
RangeThreadGroups == { MAX_THREADGROUPS, MANY_THREADGROUPS }

Ranges_Init ==
    /\ drs = Off /\ lb = Off /\ main = Off /\ os = Off
    /\ \E numKeys \in 0 .. MaxRangeKeys : \E maxThreadGroups \in RangeThreadGroups :
          ffx = [ pc |-> "sort", numKeys |-> numKeys,
                  maxThreadGroups |-> maxThreadGroups,
                  constants |-> calculateConstantsFor(0, 0, maxThreadGroups),
                  groupID |-> 0, count |-> << >>, scatter |-> << >> ]

\* sort: const constants = this.calculateConstants(numKeys, shift) of a pass.
Ranges_Calculate ==
    /\ ffx.pc = "sort"
    /\ \E pass \in { 0, TOTAL_PASSES - 1 } :
          ffx' = [ ffx EXCEPT
                     !.constants = calculateConstantsFor(ffx.numKeys,
                                      ShiftOfPass(pass, SORT_BITS_PER_PASS),
                                      ffx.maxThreadGroups),
                     !.pc = "count" ]
    /\ UNCHANGED <<drs, lb, os, main>>

\* Thread group groupID of the count dispatch derives its block range.
Ranges_CountWG ==
    /\ ffx.pc = "count"
    /\ ffx.groupID < ffx.constants.numThreadGroups
    /\ ffx' = [ ffx EXCEPT
                  !.count = Append(ffx.count, FFX_Blocks(ffx.constants, ffx.groupID)),
                  !.groupID = ffx.groupID + 1 ]
    /\ UNCHANGED <<drs, lb, os, main>>

\* The count dispatch has completed; the scatter dispatch of the same
\* constants starts.
Ranges_DispatchScatter ==
    /\ ffx.pc = "count"
    /\ ffx.groupID = ffx.constants.numThreadGroups
    /\ ffx' = [ ffx EXCEPT !.pc = "scatter", !.groupID = 0 ]
    /\ UNCHANGED <<drs, lb, os, main>>

\* Thread group groupID of the scatter dispatch derives its block range.
Ranges_ScatterWG ==
    /\ ffx.pc = "scatter"
    /\ ffx.groupID < ffx.constants.numThreadGroups
    /\ ffx' = [ ffx EXCEPT
                  !.scatter = Append(ffx.scatter,
                                     FFX_ScatterBlocks(ffx.constants, ffx.groupID)),
                  !.groupID = ffx.groupID + 1 ]
    /\ UNCHANGED <<drs, lb, os, main>>

Ranges_Next ==
    \/ Ranges_Calculate
    \/ Ranges_CountWG
    \/ Ranges_DispatchScatter
    \/ Ranges_ScatterWG

SpecRanges == Ranges_Init /\ [][Ranges_Next]_vars

\* The indices of the blocks of range r.
BlocksOf(r) ==
    { b \in 0 .. CeilDiv(MaxRangeKeys, FFX_BlockSize) :
        r.start <= b * FFX_BlockSize /\ b * FFX_BlockSize < r.start + r.count * FFX_BlockSize }

\* The ranges of the thread groups 0 .. Len(ranges) - 1 start at a block
\* boundary, are contiguous in group order and pairwise disjoint.
Contiguous(ranges) ==
    /\ \A g \in 1 .. Len(ranges) :
          /\ ranges[g].start % FFX_BlockSize = 0
          /\ ranges[g].start = (IF g = 1 THEN 0
                                ELSE ranges[g - 1].start
                                       + ranges[g - 1].count * FFX_BlockSize)
    /\ \A g, h \in 1 .. Len(ranges) :
          g # h => BlocksOf(ranges[g]) \cap BlocksOf(ranges[h]) = {}

\* Every block of the input lies in the range of exactly one thread group,
\* and the ranges hold no other block.
CoversOnce(ranges, numBlocks) ==
    /\ \A b \in Cells(numBlocks) :
          Cardinality({ g \in 1 .. Len(ranges) : b \in BlocksOf(ranges[g]) }) = 1
    /\ \A g \in 1 .. Len(ranges) : BlocksOf(ranges[g]) \subseteq Cells(numBlocks)

\* C33: calculateConstants distributes the ceil(N / block size) blocks over
\* numThreadGroups = min(MAX_THREADGROUPS, number of blocks) thread groups
\* such that numBlocksPerThreadGroup * numThreadGroups +
\* numThreadGroupsWithAdditionalBlocks is the number of blocks, and the block
\* ranges that the count kernel and the scatter kernel derive for the thread
\* groups are the same in both kernels, pairwise disjoint, contiguous in
\* group order, and cover every block exactly once.
C33_BlockRanges ==
    ffx.pc \in { "count", "scatter" } =>
        LET c == ffx.constants
            numBlocks == CeilDiv(ffx.numKeys, FFX_BlockSize)
        IN  /\ c.numThreadGroups = Min(ffx.maxThreadGroups, numBlocks)
            /\ c.numBlocksPerThreadGroup * c.numThreadGroups
                  + c.numThreadGroupsWithAdditionalBlocks = numBlocks
            /\ Contiguous(ffx.count)
            /\ Contiguous(ffx.scatter)
            /\ \A g \in 1 .. Len(ffx.scatter) : ffx.scatter[g] = ffx.count[g]
            /\ ffx.pc = "scatter" => CoversOnce(ffx.count, numBlocks)
            /\ (ffx.pc = "scatter" /\ ffx.groupID = c.numThreadGroups)
                  => CoversOnce(ffx.scatter, numBlocks)

\* Both dispatches have completed for an input of more blocks than thread
\* groups, some of which have an additional block.
C33_Witness ==
    /\ ffx.pc = "scatter"
    /\ ffx.maxThreadGroups = MANY_THREADGROUPS
    /\ ffx.groupID = MANY_THREADGROUPS
    /\ Len(ffx.scatter) = MANY_THREADGROUPS
    /\ ffx.constants.numThreadGroupsWithAdditionalBlocks > 1
    /\ ffx.scatter[MANY_THREADGROUPS].count = 2

----------------------------------------------------------------------------
(* Properties of the indices of the status register (C34).                 *)

\* Lines 108-109, 197-198, 325-326: the index of the width record of a stage
\* in the pass of the uniform block info.
StatusWidthIndex(info, stage) ==
    STATUS_SUBGROUP_BASE + (info.shift \div RADIX_LOG) * STATUS_SUBGROUP_STRIDE + stage

\* The error slots of the status register are left as they were.
ErrorSlotsKept ==
    \A i \in Cells(STATUS_ERROR_COUNT) : drs'.status[i] = drs.status[i]

\* Workgroup 0 of the current dispatch runs in this step.
DrsFirstWorkgroupRan == DrsWorkgroupRan /\ 0 \in drs.pending /\ 0 \notin drs'.pending

\* What C34 requires of one step: a kernel that records its width does so
\* inside the register and outside the error slots.
C34_Step ==
    /\ (drs.pc = "reduce" /\ DrsFirstWorkgroupRan
          /\ ~WidthRejected(drs.w.reduce, REDUCE_BLOCK_DIM))
        => /\ StatusWidthIndex(drs.info, STATUS_STAGE_REDUCE) < STATUS_LENGTH
           /\ ErrorSlotsKept
    /\ (drs.pc = "reduce" /\ drs'.pc = "dvr" /\ ~WidthRejected(drs.w.scan, BLOCK_DIM))
        => /\ StatusWidthIndex(drs.info, STATUS_STAGE_SCAN) < STATUS_LENGTH
           /\ ErrorSlotsKept
    /\ (drs.pc = "dvr" /\ DrsFirstWorkgroupRan /\ ~CapacityExceeded(drs.w.dvr))
        => /\ StatusWidthIndex(drs.info, STATUS_STAGE_DVR) < STATUS_LENGTH
           /\ ErrorSlotsKept

\* C34: every index of the status register that a DeviceRadixSort kernel
\* writes, the error slots 0 .. 2 and the width slot STATUS_SUBGROUP_BASE +
\* pass * STATUS_SUBGROUP_STRIDE + stage of every pass and stage, is below
\* the STATUS_LENGTH the host allocates and reads back, and a width write
\* never lands in an error slot.
C34_StatusIndicesInRange ==
    /\ [][C34_Step]_vars
    /\ []({ STATUS_ERR_REDUCE, STATUS_ERR_SCAN, STATUS_ERR_DVR }
            \subseteq Cells(STATUS_LENGTH))

----------------------------------------------------------------------------
(* The page (main.js): init, initWebGPU, the click handler of the Run      *)
(* button and runSortingTest.  main is the page:                           *)
(*   pc         loading, initialised (initWebGPU has returned), listening  *)
(*   device     the module variable device is set                          *)
(*   engines    per engine variable: null, created (constructed, init not  *)
(*              completed), ready (init completed)                         *)
(*   initOk     the value initWebGPU returned                              *)
(*   disabled   runButton.disabled                                         *)
(*   runs       the calls of runSortingTest that have not returned, each   *)
(*              with its mode and the point it waits at                    *)
(*   inFlight   per engine, the calls of sort() that have not settled      *)
(*   started    the calls of sort() made, with the state of the engine     *)
(*   lastRun    how the last run that ended did end                        *)
(*   clicks     the clicks delivered to the handler                        *)

\* Clicks delivered to the handler in one behaviour.
MaxClicks == 2

\* The order in which runSortingTest calls the engines (lines 522-553).
RunOrder == << "fidelityfx", "deviceradix", "onesweep" >>

PageEngines == { RunOrder[j] : j \in 1 .. Len(RunOrder) }

\* The options of the select element.
Modes == { "all", "javascript" } \cup PageEngines

\* What the browser and the engines make of initWebGPU.
InitOutcomes == { "noGpu", "noAdapter", "noSubgroups", "lowStorage", "noDevice",
                  "fidelityfxThrew", "deviceradixThrew", "onesweepThrew", "ok" }

\* initWebGPU (lines 372-470) under the outcome: the module variables it
\* leaves and the value it returns.  device is assigned at line 406, before
\* the engines are constructed and initialised in the order of RunOrder; an
\* init() that throws leaves its engine constructed and the later ones null.
initWebGPU(outcome) ==
    LET early == outcome \in { "noGpu", "noAdapter", "noSubgroups", "lowStorage",
                               "noDevice" }
        threw == { j \in 1 .. Len(RunOrder) : outcome = RunOrder[j] \o "Threw" }
        stateOf(j) == IF early THEN "null"
                      ELSE IF threw = {} THEN "ready"
                      ELSE LET t == CHOOSE x \in threw : TRUE
                           IN  IF j < t THEN "ready"
                               ELSE IF j = t THEN "created" ELSE "null"
    IN  [ device |-> ~early,
          engines |-> [ e \in PageEngines |->
                          stateOf(CHOOSE j \in 1 .. Len(RunOrder) : RunOrder[j] = e) ],
          initOk |-> outcome = "ok" ]

Page_Init ==
    /\ main = [ pc |-> "loading", device |-> FALSE,
                engines |-> [ e \in PageEngines |-> "null" ],
                initOk |-> FALSE, disabled |-> FALSE, runs |-> << >>,
                inFlight |-> [ e \in PageEngines |-> 0 ], started |-> {},
                lastRun |-> "none", clicks |-> 0 ]
    /\ drs = Off /\ ffx = Off /\ lb = Off /\ os = Off

\* init (line 365): await initWebGPU().
Main_InitWebGPU ==
    /\ main.pc = "loading"
    /\ \E outcome \in InitOutcomes :
          LET r == initWebGPU(outcome)
          IN  main' = [ main EXCEPT !.device = r.device, !.engines = r.engines,
                                    !.initOk = r.initOk, !.pc = "initialised" ]
    /\ UNCHANGED <<drs, ffx, lb, os>>

\* init (line 368): setupEventListeners(), whatever initWebGPU returned.
Main_SetupEventListeners ==
    /\ main.pc = "initialised"
    /\ main' = [ main EXCEPT !.pc = "listening" ]
    /\ UNCHANGED <<drs, ffx, lb, os>>

\* mode === 'all' || mode === e
Selected(mode, e) == mode = "all" \/ mode = e

\* The next engine of the mode after the k-th, 0 when there is none.
NextSelected(mode, k) ==
    LET later == { j \in k + 1 .. Len(RunOrder) : Selected(mode, RunOrder[j]) }
    IN  IF later = {} THEN 0 ELSE CHOOSE j \in later : \A x \in later : j <= x

\* runSortingTest, run i of page m, from the k-th engine on up to the next
\* await: the sort of the next selected engine is called (a null engine
\* variable throws a TypeError, which the catch of line 557 takes), or
\* displayResults is reached.
runSortingTest(m, i, k) ==
    LET j == NextSelected(m.runs[i].mode, k)
    IN  IF j = 0 THEN [ m EXCEPT !.runs[i].at = "display" ]
        ELSE IF m.engines[RunOrder[j]] = "null" THEN [ m EXCEPT !.runs[i].at = "catch" ]
        ELSE [ m EXCEPT !.runs[i].at = RunOrder[j],
                        !.inFlight[RunOrder[j]] = @ + 1,
                        !.started = @ \cup { [ engine |-> RunOrder[j],
                                               state |-> m.engines[RunOrder[j]] ] } ]

\* A handler that leaves the button as it is.
DisableButton_Kept(disabled) == disabled

\* runButton.disabled = true (line 486)
DisableButton(disabled) == TRUE

\* The click handler (lines 477-493) up to its await; a disabled button is
\* sent no click.
Main_Click(mode) ==
    /\ main.pc = "listening"
    /\ ~main.disabled
    /\ main.clicks < MaxClicks
    /\ IF ~main.device
       THEN main' = [ main EXCEPT !.clicks = @ + 1 ]
       ELSE LET m == [ main EXCEPT !.clicks = @ + 1,
                                   !.disabled = DisableButton(main.disabled),
                                   !.runs = Append(@, [ mode |-> mode, at |-> "start" ]) ]
            IN  main' = runSortingTest(m, Len(m.runs), 0)
    /\ UNCHANGED <<drs, ffx, lb, os>>

\* The sort() a run waits for settles: it returns, and the run goes on, or
\* it throws, and the run goes to its catch.  An engine whose init() did not
\* complete has no pipelines to encode with.
Main_SortSettles(i, returns) ==
    /\ main.pc = "listening"
    /\ i \in 1 .. Len(main.runs)
    /\ main.runs[i].at \in PageEngines
    /\ returns => main.engines[main.runs[i].at] = "ready"
    /\ LET e == main.runs[i].at
           k == CHOOSE j \in 1 .. Len(RunOrder) : RunOrder[j] = e
           m == [ main EXCEPT !.inFlight[e] = @ - 1 ]
       IN  main' = IF returns THEN runSortingTest(m, i, k)
                   ELSE [ m EXCEPT !.runs[i].at = "catch" ]
    /\ UNCHANGED <<drs, ffx, lb, os>>

\* runSortingTest returns, after displayResults or after its catch; the
\* handler enables the button (lines 491-492).
Main_RunEnds(i) ==
    /\ main.pc = "listening"
    /\ i \in 1 .. Len(main.runs)
    /\ main.runs[i].at \in { "display", "catch" }
    /\ main' = [ main EXCEPT
                   !.runs = [ x \in 1 .. Len(main.runs) - 1 |->
                                IF x < i THEN main.runs[x] ELSE main.runs[x + 1] ],
                   !.lastRun = main.runs[i].at,
                   !.disabled = FALSE ]
    /\ UNCHANGED <<drs, ffx, lb, os>>

Page_Next ==
    \/ Main_InitWebGPU
    \/ Main_SetupEventListeners
    \/ \E mode \in Modes : Main_Click(mode)
    \/ \E i \in 1 .. MaxClicks : \E returns \in BOOLEAN : Main_SortSettles(i, returns)
    \/ \E i \in 1 .. MaxClicks : Main_RunEnds(i)

SpecPage == Page_Init /\ [][Page_Next]_vars

----------------------------------------------------------------------------
(* Properties of the Run button (C35).                                     *)

\* What C35 requires of one step of the page.
C35_Step ==
    /\ Len(main'.runs) > Len(main.runs) => Len(main.runs) = 0
    /\ Len(main'.runs) < Len(main.runs) => ~main'.disabled

\* C35: the Run button is disabled exactly while a run is in flight: a
\* click starts runSortingTest only when no other run is executing, so at
\* most one sort() per engine is in progress at any time, and after every
\* run, whether all sorts succeed or an engine throws, the button is enabled
\* again.
C35_OneRunAtATime ==
    /\ [][C35_Step]_vars
    /\ [](/\ main.disabled <=> Len(main.runs) > 0
          /\ Len(main.runs) <= 1
          /\ \A e \in PageEngines : main.inFlight[e] <= 1)

\* A run in which an engine threw has ended, the button is enabled again,
\* and a second run is waiting for the sort of OneSweep.
C35_Witness ==
    /\ main.lastRun = "catch"
    /\ main.clicks = MaxClicks
    /\ main.disabled
    /\ Len(main.runs) = 1
    /\ main.runs[1].at = "onesweep"
    /\ main.inFlight["onesweep"] = 1

----------------------------------------------------------------------------
(* Properties of the initialisation of the page (C36).                     *)

\* C36: runSortingTest calls the sort() of an engine only after the init()
\* of that engine has completed; when the initialisation of WebGPU failed
\* at any step (no adapter, no subgroups feature, not enough workgroup
\* storage, an init() that threw), a click on Run starts no sort.
C36_SortOnlyAfterInit ==
    /\ \A c \in main.started : c.state = "ready"
    /\ ~main.initOk => main.started = {}

----------------------------------------------------------------------------
(* validateSort (main.js 753-771) and its properties (C37).                *)

\* Length of the arrays given to validateSort.
MaxValidateLen == 4

\* Keys of the arrays given to validateSort: the smallest, the largest and
\* one between.
ValidateKeys == { 0, 1, KEY_MAX }

ValidateArrays ==
    UNION { [ 1 .. n -> { Rec(k, 0) : k \in ValidateKeys } ] : n \in 0 .. MaxValidateLen }

RECURSIVE validateLoop_Last(_, _, _, _)
\* A loop that assigns firstError at every inversion.
validateLoop_Last(data, i, errors, firstError) ==
    IF ~(i < Len(data)) THEN [ isSorted |-> errors = 0, errors |-> errors,
                               firstError |-> firstError ]
    ELSE IF data[i].key > data[i + 1].key
    THEN validateLoop_Last(data, i + 1, errors + 1, i)
    ELSE validateLoop_Last(data, i + 1, errors, firstError)

\* A validateSort that reports the last inversion.
validateSort_Last(data) == validateLoop_Last(data, 1, 0, -1)

RECURSIVE validateLoop(_, _, _, _)
\* The loop of lines 757-764 from index i on, and the return of lines
\* 766-770; data[i] of the source is data[i + 1] here.
validateLoop(data, i, errors, firstError) ==
    IF ~(i < Len(data)) THEN [ isSorted |-> errors = 0, errors |-> errors,
                               firstError |-> firstError ]
    ELSE IF data[i].key > data[i + 1].key
    THEN validateLoop(data, i + 1, errors + 1,
                      IF firstError = -1 THEN i ELSE firstError)
    ELSE validateLoop(data, i + 1, errors, firstError)

\* validateSort(data), lines 753-771.
validateSort(data) == validateLoop(data, 1, 0, -1)

Validate_Init ==
    /\ \E data \in ValidateArrays :
          main = [ pc |-> "validate", data |-> data, valid |-> << >> ]
    /\ drs = Off /\ ffx = Off /\ lb = Off /\ os = Off

\* valid: validateSort(sorted) (runSortingTest, lines 519, 528, 537, 547).
Main_Validate ==
    /\ main.pc = "validate"
    /\ main' = [ main EXCEPT !.valid = << validateSort(main.data) >>,
                             !.pc = "validated" ]
    /\ UNCHANGED <<drs, ffx, lb, os>>

SpecValidate == Validate_Init /\ [][Main_Validate]_vars

\* The indices i of the source, 1 <= i < length, with data[i-1].key >
\* data[i].key.
Inversions(data) ==
    { i \in 1 .. Len(data) - 1 : data[i].key > data[i + 1].key }

\* C37: validateSort(data) returns isSorted = true exactly when
\* data[i-1].key <= data[i].key for every 1 <= i < length (so for empty and
\* one-element arrays); errors is the number of adjacent inversions, and
\* firstError is the smallest i with data[i-1].key > data[i].key, or -1 when
\* there is none.
C37_ValidateSort ==
    main.pc = "validated" =>
        LET r == main.valid[1]
            inv == Inversions(main.data)
        IN  /\ r.isSorted <=> \A i \in 1 .. Len(main.data) - 1 :
                                 main.data[i].key <= main.data[i + 1].key
            /\ Len(main.data) <= 1 => r.isSorted
            /\ r.errors = Cardinality(inv)
            /\ r.firstError = (IF inv = {} THEN -1
                               ELSE CHOOSE i \in inv : \A j \in inv : i <= j)

\* An array with two inversions, the first at index 1, has been validated.
C37_Witness ==
    /\ main.pc = "validated"
    /\ Len(main.data) = MaxValidateLen
    /\ main.valid[1].errors = 2
    /\ main.valid[1].firstError = 1
    /\ ~main.valid[1].isSorted

----------------------------------------------------------------------------
(* The local splits of the FidelityFX scatter kernel on the keys of one    *)
(* round of a thread group, and the packed counters they compute (C38).    *)

\* The keys a thread holds in a round: every digit value at the shift of a
\* pass, and the padding key.
SplitKeys(shift) == { d * 2^shift : d \in Cells(SORT_BIN_COUNT) } \cup { KEY_MAX }

Split_Init ==
    /\ drs = Off /\ lb = Off /\ main = Off /\ os = Off
    /\ \E pass \in { 0, TOTAL_PASSES - 1 } :
       \E key \in [ GroupThreads -> SplitKeys(ShiftOfPass(pass, SORT_BITS_PER_PASS)) ] :
          ffx = [ pc |-> "split", shift |-> ShiftOfPass(pass, SORT_BITS_PER_PASS),
                  bitShift |-> 0, key |-> key,
                  value |-> [ t \in GroupThreads |-> t ], splits |-> << >> ]

\* One iteration of the loop of line 119.
FFX_Split ==
    /\ ffx.pc = "split"
    /\ ffx.bitShift < SORT_BITS_PER_PASS
    /\ LET split == FFX_LocalSplit([ key |-> ffx.key, value |-> ffx.value ],
                                   ffx.shift, ffx.bitShift)
       IN  ffx' = [ ffx EXCEPT !.key = split.key, !.value = split.value,
                               !.bitShift = ffx.bitShift + LOCAL_SPLIT_BITS,
                               !.splits = Append(ffx.splits, split) ]
    /\ UNCHANGED <<drs, lb, os, main>>

\* The loop has ended (line 160).
FFX_SplitEnd ==
    /\ ffx.pc = "split"
    /\ ffx.bitShift >= SORT_BITS_PER_PASS
    /\ ffx' = [ ffx EXCEPT !.pc = "sorted" ]
    /\ UNCHANGED <<drs, lb, os, main>>

SpecSplit == Split_Init /\ [][FFX_Split \/ FFX_SplitEnd]_vars

\* The values of a packed counter.
CounterValues == Cells(2^LOCAL_SPLIT_BITS)

\* Counter b of a packed word.
CounterOf(word, b) == (word \div 2^(b * COUNTER_BITS)) % 2^COUNTER_BITS

\* The threads below t whose bits are b.
Below(bitKey, t, b) == Cardinality({ u \in GroupThreads : u < t /\ bitKey[u] = b })

\* The threads whose bits are below b.
Smaller(bitKey, b) == Cardinality({ u \in GroupThreads : bitKey[u] < b })

\* Every counter of the split holds the count it stands for, which no carry
\* of a neighbour has changed, and the offsets of the threads are a
\* permutation of the thread indices.
SplitExact(split) ==
    /\ \A t \in GroupThreads : \A b \in CounterValues :
          /\ CounterOf(split.localSum[t], b) = Below(split.bitKey, t, b)
          /\ CounterOf(split.localOffset[t], b)
                = Below(split.bitKey, t, b) + Smaller(split.bitKey, b)
    /\ \A b \in CounterValues :
          /\ CounterOf(split.ldsScratch0, b) = Below(split.bitKey, THREADGROUP_SIZE, b)
          /\ CounterOf(split.packedSum, b) = Smaller(split.bitKey, b)
    /\ \A t \in GroupThreads : split.keyOffset[t] \in GroupThreads
    /\ \A t, u \in GroupThreads : t # u => split.keyOffset[t] # split.keyOffset[u]

\* C38: in the local split of the FidelityFX scatter kernel every counter
\* packed into a word (the exclusive prefix of a thread, the totals of the
\* thread group and the shifted sums added to them) stays at most the
\* largest value of a counter for the threads of a group, so that no counter
\* carries into its neighbour, and the keyOffset values of the threads are
\* pairwise distinct values below THREADGROUP_SIZE.
C38_PackedCounters ==
    /\ THREADGROUP_SIZE <= 2^COUNTER_BITS - 1
    /\ ffx.pc \in { "split", "sorted" } =>
          \A i \in 1 .. Len(ffx.splits) : SplitExact(ffx.splits[i])

\* Both splits of a round are done, and in the second all the threads had
\* the same bits: one counter of the total holds THREADGROUP_SIZE.
C38_Witness ==
    /\ ffx.pc = "sorted"
    /\ Len(ffx.splits) = SORT_BITS_PER_PASS \div LOCAL_SPLIT_BITS
    /\ CounterOf(ffx.splits[Len(ffx.splits)].ldsScratch0, 2^LOCAL_SPLIT_BITS - 1)
          = THREADGROUP_SIZE
    /\ \E t \in GroupThreads : ffx.splits[1].keyOffset[t] # t

====
